---- MODULE Spec2Model ----
(***************************************************************************)
(* The bank loan demo (src/sber_test/main.py): the tables loans and        *)
(* payments behind one module-level connection, the annuity payment    *)
(* calculation, the schedule generator and the payment settlement.         *)
(*                                                                         *)
(* Units.  Money is counted in cents (the code rounds every payment to two *)
(* decimals).  An annual rate given in percent is a whole number of        *)
(* percent; the fraction stored in loans.interest_rate is counted in       *)
(* 1/RateScale.  The float expression of the annuity formula is evaluated  *)
(* exactly, over arbitrary-precision naturals (sequences of base-Base      *)
(* digits, least significant first), and round(x, 2) is the set of the     *)
(* cents values nearest to x: one value, or both neighbours when x lies    *)
(* exactly half way, where the result of the float code depends on the     *)
(* binary representation of its operands.                                  *)
(***************************************************************************)
EXTENDS Integers, Sequences, FiniteSets, TLC

(***************************************************************************)
(* Arbitrary-precision naturals: Python floats carry the formula's values  *)
(* (up to 1.01^12 * 120000) that a 32-bit integer cannot.                  *)
(***************************************************************************)
Base == 10000

RECURSIVE BigNorm(_)
BigNorm(a) ==
    IF a = <<>> THEN <<>>
    ELSE IF a[Len(a)] = 0 THEN BigNorm(SubSeq(a, 1, Len(a) - 1))
    ELSE a

RECURSIVE BigOfInt(_)
BigOfInt(n) ==
    IF n = 0 THEN <<>> ELSE <<n % Base>> \o BigOfInt(n \div Base)

RECURSIVE BigAddC(_, _, _)
BigAddC(a, b, c) ==
    IF a = <<>> /\ b = <<>> THEN (IF c = 0 THEN <<>> ELSE <<c>>)
    ELSE LET x == IF a = <<>> THEN 0 ELSE Head(a)
             y == IF b = <<>> THEN 0 ELSE Head(b)
             s == x + y + c
         IN  <<s % Base>> \o BigAddC(IF a = <<>> THEN <<>> ELSE Tail(a),
                                     IF b = <<>> THEN <<>> ELSE Tail(b),
                                     s \div Base)

BigAdd(a, b) == BigAddC(a, b, 0)

RECURSIVE BigCmpFrom(_, _, _)
BigCmpFrom(a, b, i) ==
    IF i = 0 THEN 0
    ELSE IF a[i] < b[i] THEN -1
    ELSE IF a[i] > b[i] THEN 1
    ELSE BigCmpFrom(a, b, i - 1)

\* -1, 0 or 1 as a < b, a = b or a > b (both without leading zeros).
BigCmp(a, b) ==
    IF Len(a) < Len(b) THEN -1
    ELSE IF Len(a) > Len(b) THEN 1
    ELSE BigCmpFrom(a, b, Len(a))

RECURSIVE BigSubB(_, _, _)
BigSubB(a, b, c) ==
    IF a = <<>> THEN <<>>
    ELSE LET y == IF b = <<>> THEN 0 ELSE Head(b)
             d == Head(a) - y - c
         IN  <<IF d < 0 THEN d + Base ELSE d>>
                 \o BigSubB(Tail(a), IF b = <<>> THEN <<>> ELSE Tail(b),
                            IF d < 0 THEN 1 ELSE 0)

\* a - b for a >= b.
BigSub(a, b) == BigNorm(BigSubB(a, b, 0))

RECURSIVE BigMulDigit(_, _, _)
BigMulDigit(a, d, c) ==
    IF a = <<>> THEN (IF c = 0 THEN <<>> ELSE <<c>>)
    ELSE LET s == Head(a) * d + c
         IN  <<s % Base>> \o BigMulDigit(Tail(a), d, s \div Base)

RECURSIVE BigMul(_, _)
BigMul(a, b) ==
    IF a = <<>> \/ b = <<>> THEN <<>>
    ELSE BigNorm(BigAdd(BigMulDigit(a, Head(b), 0), <<0>> \o BigMul(a, Tail(b))))

RECURSIVE BigPow(_, _)
BigPow(a, n) == IF n = 0 THEN <<1>> ELSE BigMul(a, BigPow(a, n - 1))

\* The largest k in lo..hi with k * d <= n (lo is one such k).
RECURSIVE BigQuotIn(_, _, _, _)
BigQuotIn(n, d, lo, hi) ==
    IF lo = hi THEN lo
    ELSE LET mid == lo + (hi - lo + 1) \div 2
         IN  IF BigCmp(BigMul(BigOfInt(mid), d), n) <= 0
             THEN BigQuotIn(n, d, mid, hi)
             ELSE BigQuotIn(n, d, lo, mid - 1)

\* An upper bound of n \div d that doubles until it is one.
RECURSIVE BigQuotCap(_, _, _)
BigQuotCap(n, d, k) ==
    IF BigCmp(BigMul(BigOfInt(k), d), n) > 0 THEN k ELSE BigQuotCap(n, d, 2 * k)

\* n \div d as an integer, for d > 0.
BigQuot(n, d) == BigQuotIn(n, d, 0, BigQuotCap(n, d, 1))

(***************************************************************************)
(* round(n / d, 2) in cents, n in cents of numerator and d > 0: the        *)
(* nearest integers to n / d.                                              *)
(***************************************************************************)
BigRound(n, d) ==
    LET q    == BigQuot(n, d)
        rem2 == BigMul(<<2>>, BigSub(n, BigMul(BigOfInt(q), d)))
        c    == BigCmp(rem2, d)
    IN  IF c < 0 THEN {q} ELSE IF c > 0 THEN {q + 1} ELSE {q, q + 1}

Abs(x) == IF x < 0 THEN -x ELSE x

Negated(S) == {-x : x \in S}

\* round(amount / term_months, 2) for term_months # 0.
round_quotient(amount, term_months) ==
    LET r == BigRound(BigOfInt(Abs(amount)), BigOfInt(Abs(term_months)))
    IN  IF (amount < 0) = (term_months < 0) THEN r ELSE Negated(r)

(***************************************************************************)
(* calculate_annuity_payment: monthly_rate = annual_rate_percent / 100 /   *)
(* 12 is the fraction annual_rate_percent / 1200.  With q = 1200 +         *)
(* annual_rate_percent and n = term_months >= 0,                           *)
(*   amount * (r * (1 + r)^n) / ((1 + r)^n - 1)                            *)
(*     = amount * annual_rate_percent * q^n / (1200 * (q^n - 1200^n)),     *)
(* and for n < 0 (k = -n) the same expression is                           *)
(*   - amount * annual_rate_percent * 1200^k / (1200 * (q^k - 1200^k)).    *)
(* The division raises ZeroDivisionError when its divisor is zero.         *)
(* The result: whether the call raised, and the values it can return.      *)
(***************************************************************************)
MonthsPerYear == 12

\* annuity_value with monthly_rate = annual_rate_percent / 100: the division
\* by 12 is missing.
annuity_value_annual_rate(amount, annual_rate_percent, term_months) ==
    LET den  == 100
        k    == Abs(term_months)
        qk   == BigPow(BigOfInt(den + annual_rate_percent), k)
        dk   == BigPow(BigOfInt(den), k)
        top  == BigMul(BigMul(BigOfInt(Abs(amount)), BigOfInt(annual_rate_percent)),
                       IF term_months > 0 THEN qk ELSE dk)
        bot  == BigMul(BigOfInt(den), BigSub(qk, dk))
        r    == BigRound(top, bot)
    IN  IF (amount < 0) = (term_months < 0) THEN r ELSE Negated(r)

annuity_value(amount, annual_rate_percent, term_months) ==
    LET den  == 100 * MonthsPerYear
        k    == Abs(term_months)
        qk   == BigPow(BigOfInt(den + annual_rate_percent), k)
        dk   == BigPow(BigOfInt(den), k)
        top  == BigMul(BigMul(BigOfInt(Abs(amount)), BigOfInt(annual_rate_percent)),
                       IF term_months > 0 THEN qk ELSE dk)
        bot  == BigMul(BigOfInt(den), BigSub(qk, dk))
        r    == BigRound(top, bot)
    IN  IF (amount < 0) = (term_months < 0) THEN r ELSE Negated(r)

\* calculate_annuity_payment without its zero-rate branch: the formula
\* divides by (1 + 0)^n - 1 = 0.
calculate_without_zero_branch(amount, annual_rate_percent, term_months) ==
    IF annual_rate_percent = 0 \/ term_months = 0
    THEN [raised |-> TRUE, value |-> {}]
    ELSE [raised |-> FALSE,
          value |-> annuity_value(amount, annual_rate_percent, term_months)]

\* calculate_annuity_payment that returns 0 for a term of 0 months, without
\* dividing.
calculate_guarding_term(amount, annual_rate_percent, term_months) ==
    IF term_months = 0 THEN [raised |-> FALSE, value |-> {0}]
    ELSE IF annual_rate_percent = 0
         THEN [raised |-> FALSE, value |-> round_quotient(amount, term_months)]
         ELSE [raised |-> FALSE,
               value |-> annuity_value(amount, annual_rate_percent, term_months)]

calculate_annuity_payment(amount, annual_rate_percent, term_months) ==
    IF annual_rate_percent = 0
    THEN IF term_months = 0
         THEN [raised |-> TRUE, value |-> {}]
         ELSE [raised |-> FALSE, value |-> round_quotient(amount, term_months)]
    ELSE IF term_months = 0
         THEN [raised |-> TRUE, value |-> {}]
         ELSE [raised |-> FALSE,
               value |-> annuity_value(amount, annual_rate_percent, term_months)]

(***************************************************************************)
(* Dates.  A date string "%Y-%m-%d" is the triple <<year, month, day>>; a  *)
(* datetime at midnight is its proleptic Gregorian ordinal (day 1 is       *)
(* 0001-01-01), which is what timedelta(days = ...) adds to.               *)
(***************************************************************************)
is_leap(year) == year % 4 = 0 /\ (year % 100 # 0 \/ year % 400 = 0)

days_in_month(year, month) ==
    IF month = 2 THEN (IF is_leap(year) THEN 29 ELSE 28)
    ELSE IF month \in {4, 6, 9, 11} THEN 30 ELSE 31

RECURSIVE days_before_month(_, _)
days_before_month(year, month) ==
    IF month = 1 THEN 0
    ELSE days_before_month(year, month - 1) + days_in_month(year, month - 1)

days_before_year(year) ==
    LET y == year - 1
    IN  y * 365 + y \div 4 - y \div 100 + y \div 400

\* datetime.strptime(s, "%Y-%m-%d"), as an ordinal.
strptime(s) == days_before_year(s[1]) + days_before_month(s[1], s[2]) + s[3]

\* The month of day number n (from 0) of a year: the last month that starts
\* at or before it.
RECURSIVE month_of(_, _, _)
month_of(year, n, month) ==
    IF month = 12 \/ days_before_month(year, month + 1) > n THEN month
    ELSE month_of(year, n, month + 1)

\* datetime.strftime("%Y-%m-%d") of the datetime with ordinal ord: whole
\* 400-, 100-, 4- and 1-year cycles are taken off in turn.
strftime(ord) ==
    LET n0   == ord - 1
        n400 == n0 \div 146097
        r400 == n0 % 146097
        n100 == r400 \div 36524
        r100 == r400 % 36524
        n4   == r100 \div 1461
        r4   == r100 % 1461
        n1   == r4 \div 365
        n    == r4 % 365
        year == n400 * 400 + n100 * 100 + n4 * 4 + n1 + 1
    IN  IF n1 = 4 \/ n100 = 4 THEN <<year - 1, 12, 31>>
        ELSE LET month == month_of(year, n, 1)
             IN  <<year, month, n - days_before_month(year, month) + 1>>

(***************************************************************************)
(* The tables, as the module-level connection sees them.  Every handler    *)
(* ends with conn.commit(), so outside a handler the tables are also what  *)
(* is committed; after an uncaught exception (error # NoError) they are    *)
(* what the connection held when the script stopped.                       *)
(*   loans        the rows of loans, loans[i] the row with id i (rows are  *)
(*                never deleted, ids are 1, 2, ...)                        *)
(*   payments     the rows of payments, by id                              *)
(*   payment_seq  the largest id payments ever held (AUTOINCREMENT: an id  *)
(*                is never given twice)                                    *)
(*   today        datetime.now(), as an ordinal                            *)
(*   error        the uncaught exception that ended the script, if any     *)
(*   calc         the calculation under study in SpecCalc                  *)
(* The menu loops (main of the bank script, main of the ERP script):       *)
(*   pc           where main stands: at the menu prompt, in the inner loop *)
(*                of the ERP's choice 5, or after its break                *)
(*   output       the lines printed while the last choice was served       *)
(* The ERP script's tables and the local of its main:                      *)
(*   products, orders, order_items   the rows, by id (no row is deleted)   *)
(*   order_id     the order the inner loop of choice 5 adds items to       *)
(* The calculator (AdvancedCalculator):                                    *)
(*   history      self.history                                             *)
(*   history_file the content of calculator_history.json                   *)
(*   now          datetime.datetime.now(), in seconds                      *)
(* The partner application (AdvancedPartnerApp):                           *)
(*   partners     the rows of partners, by id                              *)
(*   partner_seq  the largest id partners ever held (AUTOINCREMENT)        *)
(*   partner_tree the rows the Treeview shows                              *)
(*   stats_label  the text of the statistics label                         *)
(*   memory       the memory register of the calculator (self.memory)      *)
(*   filter_status   the value of the status filter                        *)
(*   after_queue  the callbacks root.after has scheduled on the GUI loop   *)
(*   refresh_threads   the threads start_auto_refresh has started          *)
(*   app          where the GUI thread stands                              *)
(*   users        the users table of the education book                    *)
(*   files        the files of the education book's directory that exist   *)
(*   book         where the education book stands, and its current_user    *)
(*   catalog_products   the products table of the Flask catalog            *)
(*   catalog_seq  the AUTOINCREMENT sequence of that table                 *)
(*   catalog_users      the users table of the Flask catalog               *)
(*   sessions     the session cookie of each browser                       *)
(*   response     the response to the last request                         *)
(*   change_history     the change_history table of the partner database   *)
(***************************************************************************)
VARIABLES loans, payments, payment_seq, today, error, calc,
          pc, output, products, orders, order_items, order_id,
          history, history_file, now, memory,
          partners, partner_seq, partner_tree, stats_label, filter_status,
          after_queue, refresh_threads, app,
          users, files, book,
          catalog_products, catalog_seq, catalog_users, sessions, response,
          change_history

menu_vars == <<pc, output>>

erp_vars == <<products, orders, order_items, order_id>>

calculator_vars == <<history, history_file, now, memory>>

partner_vars == <<partners, partner_seq, partner_tree, stats_label, filter_status,
                  after_queue, refresh_threads, app>>

book_vars == <<users, files, book>>

catalog_vars == <<catalog_products, catalog_seq, catalog_users, sessions, response>>

\* The state of the education book and of the Flask catalog, and the
\* change-history log of the partner database.
more_vars == <<book_vars, catalog_vars, change_history>>

\* The state of the applications other than the bank script.
other_vars == <<erp_vars, calculator_vars, partner_vars, more_vars>>

vars == <<loans, payments, payment_seq, today, error, calc,
          menu_vars, erp_vars, calculator_vars, partner_vars, more_vars>>

\* Bounds of the model.
MaxLoans == 2
MaxTerm == 2
MaxPaymentSeq == 3

\* The loan statuses 'Otkryt' (open) and 'Pogashen' (repaid) of the code.
StatusOpen == "Otkryt"
StatusRepaid == "Pogashen"

NoError == "none"
ZeroDivisionError == "ZeroDivisionError"

\* SQL NULL in payment_date (the column is not set by the INSERT).
NULL == <<>>

\* SQL NULL as the value of a scalar subquery that selects no row: no id
\* equals it (ids start at 1).
no_row == 0

\* loans.interest_rate is the fraction interest_rate_percent / 100.0, kept
\* here in units of 1/RateScale.
RateScale == 10000

\* interest_rate_percent / 100.0 (create_loan)
fraction_of_percent(interest_rate_percent) ==
    (interest_rate_percent * RateScale) \div 100

\* percent_of_fraction without the multiplication by 100.
percent_of_fraction_unscaled(interest_rate) == interest_rate \div RateScale

\* interest_rate * 100 (generate_payment_schedule)
percent_of_fraction(interest_rate) == (interest_rate * 100) \div RateScale

\* The days the script runs on: datetime.now() falls on StartDate when it
\* starts and on LastDate at the latest.
StartDate == <<2024, 1, 31>>
LastDate == <<2024, 2, 1>>

\* What the menu can be given: the client, <<amount, interest rate in
\* percent>>, and the term (months; zero and negative terms are accepted by
\* int(input())).
ClientIds == {1}
Requests == {<<10000, 0>>, <<25001, 12>>}
Terms == (-1)..MaxTerm

\* The worked examples, <<amount, interest rate in percent, term>>: the
\* specification's 120000 at 12% over 12 months, and 100.00 at 0% over 3.
Examples == {<<12000000, 12, 12>>, <<10000, 0, 3>>}

NoCalc == [phase |-> "idle"]

\* main at its menu prompt, nothing printed yet.
AtMenu == "menu"
NoOutput == <<>>

\* No calculator_history.json on the disk.
NoFile == [exists |-> FALSE]

\* The ERP script and the calculator before anything was done with them.
InitErp ==
    /\ products = <<>>
    /\ orders = <<>>
    /\ order_items = <<>>
    /\ order_id = 0

\* self.memory = 0: the int 0, not yet a float.
IntZero == [type |-> "int", value |-> 0]

InitNoCalculator ==
    /\ history = <<>>
    /\ history_file = NoFile
    /\ now = 0
    /\ memory = IntZero

\* The education book before it is started in an empty directory.
InitNoBook ==
    /\ users = <<>>
    /\ files = {}
    /\ book = [at |-> "none"]

\* The Flask catalog before init_db.
InitNoCatalog ==
    /\ catalog_products = <<>>
    /\ catalog_seq = 0
    /\ catalog_users = <<>>
    /\ sessions = <<>>
    /\ response = <<>>
    /\ change_history = <<>>

\* The partner application before AdvancedPartnerApp is constructed.
NotStarted == [at |-> "none"]

InitNoPartnerApp ==
    /\ partners = <<>>
    /\ partner_seq = 0
    /\ partner_tree = <<>>
    /\ stats_label = <<>>
    /\ filter_status = "all"
    /\ after_queue = <<>>
    /\ refresh_threads = <<>>
    /\ app = NotStarted

Init ==
    /\ loans = <<>>
    /\ payments = <<>>
    /\ payment_seq = 0
    /\ today = strptime(StartDate)
    /\ error = NoError
    /\ calc = NoCalc
    /\ pc = AtMenu
    /\ output = NoOutput
    /\ InitErp
    /\ InitNoCalculator
    /\ InitNoPartnerApp
    /\ InitNoBook
    /\ InitNoCatalog

\* calculate_annuity_payment over the arguments the menu's inputs lead to,
\* evaluated once.
annuity_arguments ==
    {<<r[1], r[2], t>> : r \in Requests, t \in Terms} \cup Examples

annuity_table ==
    [a \in annuity_arguments |-> calculate_annuity_payment(a[1], a[2], a[3])]

annuity_payment(amount, annual_rate_percent, term_months) ==
    IF <<amount, annual_rate_percent, term_months>> \in annuity_arguments
    THEN annuity_table[<<amount, annual_rate_percent, term_months>>]
    ELSE calculate_annuity_payment(amount, annual_rate_percent, term_months)

\* schedule_rows counting the days from today, not from the loan's start_date.
schedule_rows_from_today(loan_id, row, payment_amount, seq) ==
    [id \in (seq + 1)..(seq + row.term_months) |->
        [loan_id        |-> loan_id,
         payment_number |-> id - seq,
         due_date       |-> strftime(today + 30 * (id - seq)),
         amount         |-> payment_amount,
         paid           |-> 0,
         payment_date   |-> NULL]]

\* schedule_rows whose last entry carries one cent more than the others.
schedule_rows_adjusted(loan_id, row, payment_amount, seq) ==
    [id \in (seq + 1)..(seq + row.term_months) |->
        [loan_id        |-> loan_id,
         payment_number |-> id - seq,
         due_date       |-> strftime(strptime(row.start_date) + 30 * (id - seq)),
         amount         |-> IF id = seq + row.term_months THEN payment_amount + 1
                            ELSE payment_amount,
         paid           |-> 0,
         payment_date   |-> NULL]]

\* schedule_rows with range(1, term_months): the last entry is missing.
schedule_rows_short(loan_id, row, payment_amount, seq) ==
    [id \in (seq + 1)..(seq + row.term_months - 1) |->
        [loan_id        |-> loan_id,
         payment_number |-> id - seq,
         due_date       |-> strftime(strptime(row.start_date) + 30 * (id - seq)),
         amount         |-> payment_amount,
         paid           |-> 0,
         payment_date   |-> NULL]]

\* The rows generate_payment_schedule inserts for loan_id: one for every n
\* of range(1, term_months + 1), with the ids after seq.
schedule_rows(loan_id, row, payment_amount, seq) ==
    [id \in (seq + 1)..(seq + row.term_months) |->
        [loan_id        |-> loan_id,
         payment_number |-> id - seq,
         due_date       |-> strftime(strptime(row.start_date) + 30 * (id - seq)),
         amount         |-> payment_amount,
         paid           |-> 0,
         payment_date   |-> NULL]]

\* delete_schedule that keeps the entries already paid.
delete_schedule_unpaid(ps, loan_id) ==
    [id \in {i \in DOMAIN ps : ps[i].loan_id # loan_id \/ ps[i].paid = 1} |-> ps[id]]

\* DELETE FROM payments WHERE loan_id = ?
delete_schedule(ps, loan_id) ==
    [id \in {i \in DOMAIN ps : ps[i].loan_id # loan_id} |-> ps[id]]

\* generate_payment_schedule(loan_id) on the loans table ls: what it makes
\* of payments, payment_seq and error.
generate(ls, loan_id) ==
    IF loan_id \notin DOMAIN ls
    THEN UNCHANGED <<payments, payment_seq, error>>
    ELSE LET row == ls[loan_id]
             res == annuity_payment(
                        row.amount, percent_of_fraction(row.interest_rate),
                        row.term_months)
         IN  IF res.raised
             THEN /\ error' = ZeroDivisionError
                  /\ UNCHANGED <<payments, payment_seq>>
             ELSE \E payment_amount \in res.value :
                     LET kept == delete_schedule(payments, loan_id)
                         new  == schedule_rows(loan_id, row, payment_amount,
                                               payment_seq)
                     IN  /\ payments' = [id \in DOMAIN kept \cup DOMAIN new |->
                                            IF id \in DOMAIN new THEN new[id]
                                            ELSE kept[id]]
                         /\ payment_seq' = payment_seq + Cardinality(DOMAIN new)
                         /\ error' = error

generate_payment_schedule(loan_id) ==
    /\ error = NoError
    /\ generate(loans, loan_id)
    /\ UNCHANGED <<loans, today, calc, other_vars>>

\* create_loan: the row is inserted, then its schedule generated.
create_loan(client_id, amount, interest_rate_percent, term_months) ==
    LET row == [client_id     |-> client_id,
                amount        |-> amount,
                interest_rate |-> fraction_of_percent(interest_rate_percent),
                term_months   |-> term_months,
                start_date    |-> strftime(today),
                status        |-> StatusOpen]
        inserted == Append(loans, row)
    IN  /\ error = NoError
        /\ loans' = inserted
        /\ generate(inserted, Len(inserted))
        /\ UNCHANGED <<today, calc, other_vars>>

\* mark_paid with WHERE loan_id = (the payment's loan): the whole schedule
\* of the loan is marked.
mark_paid_schedule(ps, payment_id, payment_date) ==
    [id \in DOMAIN ps |->
        IF payment_id \in DOMAIN ps /\ ps[id].loan_id = ps[payment_id].loan_id
        THEN [ps[id] EXCEPT !.paid = 1, !.payment_date = payment_date]
        ELSE ps[id]]

\* UPDATE payments SET paid = 1, payment_date = ? WHERE id = ?
mark_paid(ps, payment_id, payment_date) ==
    [id \in DOMAIN ps |->
        IF id = payment_id
        THEN [ps[id] EXCEPT !.paid = 1, !.payment_date = payment_date]
        ELSE ps[id]]

\* loan_of_payment that takes the payment's id for the loan's.
loan_of_payment_by_id(ps, payment_id) == payment_id

\* SELECT loan_id FROM payments WHERE id = ?
loan_of_payment(ps, payment_id) ==
    IF payment_id \in DOMAIN ps THEN ps[payment_id].loan_id ELSE no_row

\* count_unpaid without the loan_id condition: the unpaid entries of all loans.
count_unpaid_all(ps, loan_id) ==
    Cardinality({id \in DOMAIN ps : loan_id # no_row /\ ps[id].paid = 0})

\* SELECT COUNT(*) FROM payments WHERE loan_id = (...) AND paid = 0
\* (a comparison with NULL selects no row)
count_unpaid(ps, loan_id) ==
    Cardinality({id \in DOMAIN ps :
                    loan_id # no_row /\ ps[id].loan_id = loan_id /\ ps[id].paid = 0})

\* close_loan without its UPDATE.
close_loan_skipped(ls, loan_id) == ls

\* close_loan writing the third status of the schema's comment, 'Otmenen'.
close_loan_cancelled(ls, loan_id) ==
    [i \in DOMAIN ls |->
        IF loan_id # no_row /\ i = loan_id
        THEN [ls[i] EXCEPT !.status = "Otmenen"]
        ELSE ls[i]]

\* UPDATE loans SET status = 'Pogashen' WHERE id = (...)
close_loan(ls, loan_id) ==
    [i \in DOMAIN ls |->
        IF loan_id # no_row /\ i = loan_id
        THEN [ls[i] EXCEPT !.status = StatusRepaid]
        ELSE ls[i]]

pay_payment(payment_id) ==
    LET updated == mark_paid(payments, payment_id, strftime(today))
        loan_id == loan_of_payment(updated, payment_id)
        remaining_unpaid == count_unpaid(updated, loan_id)
    IN  /\ error = NoError
        /\ payments' = updated
        /\ loans' = IF remaining_unpaid = 0 THEN close_loan(loans, loan_id)
                    ELSE loans
        /\ UNCHANGED <<payment_seq, today, error, calc, other_vars>>

\* A day passes between two menu choices.
Tick ==
    /\ error = NoError
    /\ today < strptime(LastDate)
    /\ today' = today + 1
    /\ UNCHANGED <<loans, payments, payment_seq, error, calc,
                   menu_vars, other_vars>>

Max(a, b) == IF a > b THEN a ELSE b

\* A call of create_loan, within the bounds of the model.
CreateLoan ==
    \E client_id \in ClientIds, request \in Requests, term_months \in Terms :
        /\ Len(loans) < MaxLoans
        /\ payment_seq + Max(term_months, 0) <= MaxPaymentSeq
        /\ create_loan(client_id, request[1], request[2], term_months)
        /\ UNCHANGED menu_vars

\* A call of generate_payment_schedule for a loan that has its schedule (or
\* for an id that no loan has).
GeneratePaymentSchedule ==
    \E loan_id \in 1..(Len(loans) + 1) :
        /\ loan_id \in DOMAIN loans =>
              payment_seq + Max(loans[loan_id].term_months, 0) <= MaxPaymentSeq
        /\ generate_payment_schedule(loan_id)
        /\ UNCHANGED menu_vars

\* A call of pay_payment, with the id of a payment, of a deleted payment or
\* of none.
PayPayment ==
    \E payment_id \in 1..(payment_seq + 1) :
        /\ pay_payment(payment_id)
        /\ UNCHANGED menu_vars

Next ==
    \/ CreateLoan
    \/ GeneratePaymentSchedule
    \/ PayPayment
    \/ Tick

Spec == Init /\ [][Next]_vars

(***************************************************************************)
(* SpecExample: one loan of the worked examples is created and paid off.   *)
(***************************************************************************)
CreateExampleLoan ==
    \E client_id \in ClientIds, example \in Examples :
        /\ loans = <<>>
        /\ create_loan(client_id, example[1], example[2], example[3])
        /\ UNCHANGED menu_vars

NextExample ==
    \/ CreateExampleLoan
    \/ PayPayment

SpecExample == Init /\ [][NextExample]_vars

(***************************************************************************)
(* SpecCalc: calculate_annuity_payment on its own.  The arguments are      *)
(* drawn in the initial state, CalcPayment applies the function, and       *)
(* CalcStep then pays the loan down month by month:                        *)
(*     balance := balance * (1 + monthly_rate) - payment.                  *)
(* After k steps the balance, in cents, is the signed fraction             *)
(* calc.balance / 1200^k, kept exactly.                                    *)
(***************************************************************************)
MaxCalcTerm == 12

CalcAmounts == {10000, 10001, 25001, 12000000}
CalcRates == {0, 1, 12, 24}
CalcTerms == 0..MaxCalcTerm

InitCalc ==
    /\ loans = <<>>
    /\ payments = <<>>
    /\ payment_seq = 0
    /\ today = strptime(StartDate)
    /\ error = NoError
    /\ pc = AtMenu
    /\ output = NoOutput
    /\ InitErp
    /\ InitNoCalculator
    /\ InitNoPartnerApp
    /\ InitNoBook
    /\ InitNoCatalog
    /\ calc \in {[phase |-> "input", amount |-> a, annual_rate_percent |-> p,
                  term_months |-> t] :
                    a \in CalcAmounts, p \in CalcRates, t \in CalcTerms}

CalcPayment ==
    /\ calc.phase = "input"
    /\ LET res == calculate_annuity_payment(calc.amount, calc.annual_rate_percent,
                                            calc.term_months)
       IN  IF res.raised
           THEN calc' = [phase |-> "raised", amount |-> calc.amount,
                         annual_rate_percent |-> calc.annual_rate_percent,
                         term_months |-> calc.term_months]
           ELSE \E payment \in res.value :
                   calc' = [phase |-> "computed", amount |-> calc.amount,
                            annual_rate_percent |-> calc.annual_rate_percent,
                            term_months |-> calc.term_months,
                            payment |-> payment, k |-> 0,
                            balance |-> [neg |-> FALSE,
                                         mag |-> BigOfInt(calc.amount)]]
    /\ UNCHANGED <<loans, payments, payment_seq, today, error,
                   menu_vars, other_vars>>

\* balance * (1 + monthly_rate) - payment after k steps, over 1200^(k + 1).
balance_step(balance, payment, annual_rate_percent, k) ==
    LET den  == 100 * MonthsPerYear
        grow == BigMul(balance.mag, BigOfInt(den + annual_rate_percent))
        pay  == BigMul(BigOfInt(payment), BigPow(BigOfInt(den), k + 1))
    IN  IF balance.neg THEN [neg |-> TRUE, mag |-> BigAdd(grow, pay)]
        ELSE IF BigCmp(grow, pay) >= 0
             THEN [neg |-> FALSE, mag |-> BigSub(grow, pay)]
             ELSE [neg |-> TRUE, mag |-> BigSub(pay, grow)]

CalcStep ==
    /\ calc.phase = "computed"
    /\ calc.k < calc.term_months
    /\ calc' = [calc EXCEPT
                  !.k = calc.k + 1,
                  !.balance = balance_step(calc.balance, calc.payment,
                                           calc.annual_rate_percent, calc.k)]
    /\ UNCHANGED <<loans, payments, payment_seq, today, error,
                   menu_vars, other_vars>>

NextCalc ==
    \/ CalcPayment
    \/ CalcStep

SpecCalc == InitCalc /\ [][NextCalc]_vars

(***************************************************************************)
(* What is typed at a prompt: a text is a sequence of characters, here     *)
(* decimal digits, the signs, the point and a letter.  int and float are   *)
(* Python's int(text) and float(text) on such texts (no blanks, no         *)
(* underscores, no exponent): int accepts an optional sign and one or more *)
(* digits; float accepts an optional sign and digits with at most one      *)
(* point, with a digit on one side of it at least.  Anything else raises   *)
(* ValueError.  A float is kept exactly, as mantissa / 10^decimals.        *)
(***************************************************************************)
ValueError == "ValueError"

Digits == {"0", "1", "2", "3", "4", "5", "6", "7", "8", "9"}

digit_value(c) ==
    CASE c = "0" -> 0 [] c = "1" -> 1 [] c = "2" -> 2 [] c = "3" -> 3
      [] c = "4" -> 4 [] c = "5" -> 5 [] c = "6" -> 6 [] c = "7" -> 7
      [] c = "8" -> 8 [] c = "9" -> 9

is_digits(s) == \A i \in DOMAIN s : s[i] \in Digits

RECURSIVE digits_value(_)
digits_value(s) ==
    IF s = <<>> THEN 0
    ELSE 10 * digits_value(SubSeq(s, 1, Len(s) - 1)) + digit_value(s[Len(s)])

has_sign(text) == text # <<>> /\ text[1] \in {"-", "+"}

unsigned(text) == IF has_sign(text) THEN Tail(text) ELSE text

sign_of(text) == IF text # <<>> /\ text[1] = "-" THEN -1 ELSE 1

\* int(text)
int(text) ==
    LET body == unsigned(text)
    IN  IF body # <<>> /\ is_digits(body)
        THEN [raised |-> FALSE, value |-> sign_of(text) * digits_value(body)]
        ELSE [raised |-> TRUE, value |-> 0]

\* float(text)
float(text) ==
    LET body   == unsigned(text)
        points == {i \in DOMAIN body : body[i] = "."}
        point  == IF points = {} THEN Len(body) + 1 ELSE CHOOSE i \in points : TRUE
        whole  == SubSeq(body, 1, point - 1)
        frac   == SubSeq(body, point + 1, Len(body))
    IN  IF /\ Cardinality(points) <= 1
           /\ is_digits(whole)
           /\ is_digits(frac)
           /\ whole \o frac # <<>>
        THEN [raised |-> FALSE,
              mantissa |-> sign_of(text) * digits_value(whole \o frac),
              decimals |-> Len(frac)]
        ELSE [raised |-> TRUE, mantissa |-> 0, decimals |-> 0]

\* The amount typed, in cents, and the rate typed, in whole percent: the
\* units create_loan's arguments have in this model.  (MenuCreateLoan takes
\* amounts of at most two decimals and rates without decimals.)
cents_of_float(x) ==
    x.mantissa * (CASE x.decimals = 0 -> 100 [] x.decimals = 1 -> 10 [] OTHER -> 1)

percent_of_float(x) == x.mantissa

(***************************************************************************)
(* SpecBank: main of the bank script.  One action per menu choice that     *)
(* reads a number (2, 5, 6) and the exit (0); each serves the choice       *)
(* whole, from the menu prompt to the next one.  The prompts of one choice *)
(* are all answered before anything is written.                            *)
(***************************************************************************)
InvalidInput == <<<<"Nekorrektnyj vvod.">>>>

Exited == "exit"

\* What is typed at the prompts of the bank's menu.
ClientTexts == {<<"1">>, <<"a">>}
AmountTexts == {<<"1", "0", "0", ".", "0", "0">>, <<"1", ".", "0", ".", "0">>}
RateTexts == {<<"0">>, <<"1", "2">>, <<"+">>}
TermTexts == {<<"-", "1">>, <<"0">>, <<"1">>, <<"2">>, <<"1", ".", "5">>}
LoanTexts == {<<"1">>, <<"-">>}
PaymentTexts == {<<"1">>, <<"2">>, <<"3">>, <<"4">>, <<>>}

bank_tables == <<loans, payments, payment_seq>>

\* One line of view_payment_schedule per payment of the loan.
schedule_line(p) ==
    <<"Platezh", p.payment_number, p.due_date, p.amount,
      IF p.paid # 0 THEN "Oplachen" ELSE "Ne oplachen">>

\* SELECT ... FROM payments WHERE loan_id = ? ORDER BY payment_number, printed
\* under its heading.
view_payment_schedule(loan_id) ==
    LET rows == {i \in DOMAIN payments : payments[i].loan_id = loan_id}
        before(i) == {j \in rows :
                        \/ payments[j].payment_number < payments[i].payment_number
                        \/ /\ payments[j].payment_number = payments[i].payment_number
                           /\ j < i}
        at(k) == CHOOSE i \in rows : Cardinality(before(i)) = k - 1
    IN  <<<<"Grafik platezhej po kreditu", loan_id>>>>
            \o [k \in 1..Cardinality(rows) |-> schedule_line(payments[at(k)])]

\* try: <the conversions, then the handler>  except ValueError: print(...)
\* A conversion that raises is caught: the message is printed and the loop
\* goes on to the next prompt.  What the handler itself raises is not a
\* ValueError and ends the script (error).
serve(values, served) ==
    /\ pc = AtMenu
    /\ error = NoError
    /\ IF \E k \in DOMAIN values : values[k].raised
       THEN /\ output' = InvalidInput
            /\ UNCHANGED <<pc, error, bank_tables, today, calc, other_vars>>
       ELSE served

\* choice '2'
menu_create_loan(client_text, amount_text, rate_text, term_text) ==
    LET client_id             == int(client_text)
        amount                == float(amount_text)
        interest_rate_percent == float(rate_text)
        term_months           == int(term_text)
    IN  serve(<<client_id, amount, interest_rate_percent, term_months>>,
              /\ create_loan(client_id.value, cents_of_float(amount),
                             percent_of_float(interest_rate_percent),
                             term_months.value)
              /\ pc' = pc
              /\ output' = IF error' = NoError
                           THEN <<<<"Grafik pogasheniya sozdan.", Len(loans')>>,
                                  <<"Kredit oformlen uspeshno.">>>>
                           ELSE output)

\* choice '5'
menu_view_payment_schedule(loan_text) ==
    LET loan_id == int(loan_text)
    IN  serve(<<loan_id>>,
              /\ output' = view_payment_schedule(loan_id.value)
              /\ UNCHANGED <<pc, error, bank_tables, today, calc, other_vars>>)

\* choice '6'
menu_pay_payment(payment_text) ==
    LET payment_id == int(payment_text)
    IN  serve(<<payment_id>>,
              /\ pay_payment(payment_id.value)
              /\ pc' = pc
              /\ output' = <<<<"Platezh oplachen.", payment_id.value>>>>)

\* choice '0'
menu_exit ==
    /\ pc = AtMenu
    /\ error = NoError
    /\ pc' = Exited
    /\ UNCHANGED <<output, error, bank_tables, today, calc, other_vars>>

MenuCreateLoan ==
    \E client_text \in ClientTexts, amount_text \in AmountTexts,
       rate_text \in RateTexts, term_text \in TermTexts :
        /\ Len(loans) < MaxLoans
        /\ ~int(term_text).raised =>
              payment_seq + Max(int(term_text).value, 0) <= MaxPaymentSeq
        /\ ~float(amount_text).raised => float(amount_text).decimals <= 2
        /\ ~float(rate_text).raised => float(rate_text).decimals = 0
        /\ menu_create_loan(client_text, amount_text, rate_text, term_text)

MenuViewPaymentSchedule ==
    \E loan_text \in LoanTexts : menu_view_payment_schedule(loan_text)

MenuPayPayment ==
    \E payment_text \in PaymentTexts : menu_pay_payment(payment_text)

MenuExit == menu_exit

NextBank ==
    \/ MenuCreateLoan
    \/ MenuViewPaymentSchedule
    \/ MenuPayPayment
    \/ MenuExit

SpecBank == Init /\ [][NextBank]_vars

(***************************************************************************)
(* SpecErp: main of the ERP script.  Its conversions stand in no try       *)
(* statement: a ValueError ends the script.  Choice 5 creates the order    *)
(* and then asks for items in an inner loop; one action is one turn of     *)
(* that loop.  Every handler that writes commits before it returns.        *)
(***************************************************************************)
MaxProducts == 1
MaxOrders == 1
MaxOrderItems == 2

InOrder == "order"

\* fetchone() when no row is selected.
None == <<>>

\* What is typed at the prompts of the ERP's menu.
ProductNames == {"tovar"}
PriceTexts == {<<"9", ".", "5">>, <<"9", ".", ".">>}
StockTexts == {<<"1">>, <<"2">>, <<"2", "a">>}
ProductTexts == {<<"1">>, <<"2">>, <<"-", "1">>, <<"a">>}
QuantityTexts == {<<"1">>, <<"2">>, <<"3">>, <<"-", "1">>, <<"1", ".", "0">>}
OrderTexts == {<<"1">>, <<"2">>, <<"-">>}

bank_vars == <<loans, payments, payment_seq, today, calc>>

\* INSERT INTO products (name, price, stock)
add_product(name, price, stock) ==
    products' = Append(products, [name |-> name, price |-> price, stock |-> stock])

\* INSERT INTO orders (client_id, date); returns cursor.lastrowid.  The date
\* is kept to its day.
create_order(client_id) ==
    /\ orders' = Append(orders, [client_id |-> client_id, date |-> strftime(today)])
    /\ order_id' = Len(orders) + 1

\* SELECT stock FROM products WHERE id = ?, fetchone()
select_stock(product_id) ==
    IF product_id \in DOMAIN products THEN <<products[product_id].stock>> ELSE None

\* in_stock that takes any product that exists.
in_stock_unchecked(stock, quantity) == stock # None

\* stock and stock[0] >= quantity
in_stock(stock, quantity) == stock # None /\ stock[1] >= quantity

add_order_item(order, product_id, quantity) ==
    LET stock == select_stock(product_id)
    IN  IF in_stock(stock, quantity)
        THEN LET new_stock == stock[1] - quantity
             IN  /\ products' = [products EXCEPT ![product_id].stock = new_stock]
                 /\ order_items' = Append(order_items,
                                          [order_id   |-> order,
                                           product_id |-> product_id,
                                           quantity   |-> quantity])
                 /\ output' = <<<<"Tovar dobavlen v zakaz.">>>>
        ELSE /\ output' = <<<<"Nedostatochno tovara na sklade.">>>>
             /\ UNCHANGED <<products, order_items>>

\* SELECT p.name, oi.quantity FROM order_items oi JOIN products p
\* ON oi.product_id = p.id WHERE oi.order_id = ?, printed under its heading.
get_order_details(order) ==
    LET rows == {i \in DOMAIN order_items :
                    /\ order_items[i].order_id = order
                    /\ order_items[i].product_id \in DOMAIN products}
        at(k) == CHOOSE i \in rows : Cardinality({j \in rows : j < i}) = k - 1
    IN  <<<<"Detali zakaza", order>>>>
            \o [k \in 1..Cardinality(rows) |->
                   <<"Tovar", products[order_items[at(k)].product_id].name,
                     order_items[at(k)].quantity>>]

\* The conversions of one choice, in the order of their prompts, then what
\* the choice does with the values; a conversion that raises ends the script.
convert(values, served) ==
    /\ error = NoError
    /\ IF \E k \in DOMAIN values : values[k].raised
       THEN /\ error' = ValueError
            /\ UNCHANGED <<pc, output, erp_vars, bank_vars, calculator_vars, partner_vars, more_vars>>
       ELSE /\ error' = error
            /\ served
            /\ UNCHANGED <<bank_vars, calculator_vars, partner_vars, more_vars>>

\* choice '1'
erp_add_product(name, price_text, stock_text) ==
    LET price == float(price_text)
        stock == int(stock_text)
    IN  /\ pc = AtMenu
        /\ convert(<<price, stock>>,
                   /\ add_product(name, cents_of_float(price), stock.value)
                   /\ UNCHANGED <<pc, output, orders, order_items, order_id>>)

\* choice '5', to the first prompt of its inner loop
erp_create_order(client_text) ==
    LET client_id == int(client_text)
    IN  /\ pc = AtMenu
        /\ convert(<<client_id>>,
                   /\ create_order(client_id.value)
                   /\ pc' = InOrder
                   /\ UNCHANGED <<output, products, order_items>>)

\* One turn of the inner loop of choice '5': the product is asked for, then,
\* unless it is -1, the quantity.
erp_order_turn(product_text, quantity_text) ==
    LET product_id == int(product_text)
        quantity   == int(quantity_text)
    IN  /\ pc = InOrder
        /\ IF ~product_id.raised /\ product_id.value = -1
           THEN /\ pc' = AtMenu
                /\ UNCHANGED <<error, output, erp_vars, bank_vars, calculator_vars, partner_vars, more_vars>>
           ELSE convert(<<product_id, quantity>>,
                        /\ add_order_item(order_id, product_id.value, quantity.value)
                        /\ UNCHANGED <<pc, orders, order_id>>)

\* choice '7'
erp_order_details(order_text) ==
    LET order == int(order_text)
    IN  /\ pc = AtMenu
        /\ convert(<<order>>,
                   /\ output' = get_order_details(order.value)
                   /\ UNCHANGED <<pc, erp_vars>>)

\* choice '0'
erp_exit ==
    /\ pc = AtMenu
    /\ error = NoError
    /\ pc' = Exited
    /\ UNCHANGED <<error, output, erp_vars, bank_vars, calculator_vars, partner_vars, more_vars>>

ErpAddProduct ==
    \E name \in ProductNames, price_text \in PriceTexts, stock_text \in StockTexts :
        /\ Len(products) < MaxProducts
        /\ ~float(price_text).raised => float(price_text).decimals <= 2
        /\ erp_add_product(name, price_text, stock_text)

ErpCreateOrder ==
    \E client_text \in ClientTexts :
        /\ Len(orders) < MaxOrders
        /\ erp_create_order(client_text)

ErpOrderTurn ==
    \E product_text \in ProductTexts, quantity_text \in QuantityTexts :
        /\ Len(order_items) < MaxOrderItems
              \/ (~int(product_text).raised /\ int(product_text).value = -1)
        /\ erp_order_turn(product_text, quantity_text)

ErpOrderDetails ==
    \E order_text \in OrderTexts : erp_order_details(order_text)

ErpExit == erp_exit

NextErp ==
    \/ ErpAddProduct
    \/ ErpCreateOrder
    \/ ErpOrderTurn
    \/ ErpOrderDetails
    \/ ErpExit

SpecErp == Init /\ [][NextErp]_vars

(***************************************************************************)
(* SpecPartner: the partner application.  main constructs one              *)
(* AdvancedPartnerApp and enters root.mainloop().  The GUI thread serves   *)
(* the user's actions; a handler runs whole, except that a modal message   *)
(* box runs the GUI loop while it is shown, so that callbacks scheduled    *)
(* with root.after can run between the write of save_partner and its       *)
(* reload, and before the confirmation of a delete.  The refresh thread    *)
(* runs beside the GUI thread; one action is one turn of its loop.         *)
(* The category filter and the search field are left as they start         *)
(* ("all", empty).                                                         *)
(***************************************************************************)
MaxPartners == 2
MaxPending == 2

\* What the user enters in the dialog.
NameTexts == {"", "Anna"}
EmailTexts == {"", "anna@example.org"}
SalesTexts == {<<"1", "0", "0", ".", "5">>, <<"1", "0", "0", ".", "5", "a">>}
CommissionTexts == {<<"1", "0">>}
Statuses == {"active", "inactive"}
StatusFilters == {"all", "active"}

load_partners_callback == "load_partners"

\* The GUI loop is running: in root.mainloop(), or in the loop of a modal
\* box shown by a handler.
InLoop == {"mainloop", "added", "updated", "confirm"}

\* The ids of db in increasing order (SELECT * FROM partners).
RECURSIVE ordered(_)
ordered(ids) ==
    IF ids = {} THEN <<>>
    ELSE LET least == CHOOSE i \in ids : \A j \in ids : i <= j
         IN  <<least>> \o ordered(ids \ {least})

\* INSERT INTO partners (...); the row gets the next id.
add_partner(partner) ==
    /\ partners' = [id \in DOMAIN partners \cup {partner_seq + 1} |->
                       IF id = partner_seq + 1 THEN partner ELSE partners[id]]
    /\ partner_seq' = partner_seq + 1

\* get_all_partners on the table db: Partner objects, with their ids.
get_all_partners(db) ==
    LET ids == ordered(DOMAIN db)
    IN  [k \in DOMAIN ids |-> [id |-> ids[k], row |-> db[ids[k]]]]

\* UPDATE partners SET ... WHERE id = ?
update_partner(id, partner) ==
    /\ partners' = [i \in DOMAIN partners |-> IF i = id THEN partner ELSE partners[i]]
    /\ partner_seq' = partner_seq

\* DELETE FROM partners WHERE id = ?  (sales_history and contacts, which
\* nothing inserts into, hold no rows)
delete_partner(id) ==
    /\ partners' = [i \in DOMAIN partners \ {id} |-> partners[i]]
    /\ partner_seq' = partner_seq

\* filter_partners, with the status filter as it will be after the step.
filter_partners(list) ==
    IF filter_status' # "all"
    THEN SelectSeq(list, LAMBDA p : p.row.status = filter_status')
    ELSE list

\* The values load_partners inserts into the Treeview for a partner; the
\* commission is total_sales * commission_rate (cents times percent).
tree_values(p) ==
    <<p.id, p.row.name, p.row.company, p.row.email, p.row.total_sales,
      p.row.total_sales * p.row.commission_rate, p.row.category, p.row.status,
      p.row.region>>

\* sum(p.total_sales for p in partners)
RECURSIVE total_sales_of(_)
total_sales_of(list) ==
    IF list = <<>> THEN 0
    ELSE Head(list).row.total_sales + total_sales_of(Tail(list))

\* sum(p.total_sales * p.commission_rate for p in partners)
RECURSIVE total_commission_of(_)
total_commission_of(list) ==
    IF list = <<>> THEN 0
    ELSE Head(list).row.total_sales * Head(list).row.commission_rate
            + total_commission_of(Tail(list))

\* get_sales_summary on the table db.
get_sales_summary(db) ==
    LET list == get_all_partners(db)
    IN  [total_sales      |-> total_sales_of(list),
         total_commission |-> total_commission_of(list),
         active_partners  |-> Len(SelectSeq(list, LAMBDA p : p.row.status = "active")),
         total_partners   |-> Len(list)]

\* load_partners, reading the table as the step leaves it: the Treeview is
\* cleared and filled, the statistics are updated.
load_partners ==
    LET shown == filter_partners(get_all_partners(partners'))
    IN  /\ partner_tree' = [k \in DOMAIN shown |-> tree_values(shown[k])]
        /\ stats_label' = get_sales_summary(partners')

\* start_auto_refresh: the thread is started and sleeps.
start_auto_refresh == refresh_threads' = Append(refresh_threads, "sleeping")

\* AdvancedPartnerApp.__init__, and main entering root.mainloop()
app_init ==
    /\ app.at = "none"
    /\ UNCHANGED <<partners, partner_seq, filter_status, after_queue>>
    /\ load_partners
    /\ start_auto_refresh
    /\ app' = [at |-> "mainloop"]

\* A turn of auto_refresh in which the thread calls load_partners itself.
auto_refresh_direct(t) ==
    /\ t \in DOMAIN refresh_threads
    /\ refresh_threads[t] = "sleeping"
    /\ IF app.at \in InLoop
       THEN /\ UNCHANGED <<partners, partner_seq, filter_status>>
            /\ load_partners
            /\ UNCHANGED <<after_queue, refresh_threads, app>>
       ELSE /\ refresh_threads' = [refresh_threads EXCEPT ![t] = "ended"]
            /\ UNCHANGED <<partners, partner_seq, partner_tree, stats_label,
                           filter_status, after_queue, app>>

\* One turn of the loop of auto_refresh in thread t: after the sleep,
\* root.after(0, self.load_partners); when that raises (the GUI loop is not
\* running any more) the thread leaves its loop.
auto_refresh(t) ==
    /\ t \in DOMAIN refresh_threads
    /\ refresh_threads[t] = "sleeping"
    /\ IF app.at \in InLoop
       THEN /\ after_queue' = Append(after_queue, load_partners_callback)
            /\ UNCHANGED <<partners, partner_seq, partner_tree, stats_label,
                           filter_status, refresh_threads, app>>
       ELSE /\ refresh_threads' = [refresh_threads EXCEPT ![t] = "ended"]
            /\ UNCHANGED <<partners, partner_seq, partner_tree, stats_label,
                           filter_status, after_queue, app>>

\* The GUI loop runs the callback scheduled first.
run_scheduled ==
    /\ app.at \in InLoop
    /\ after_queue # <<>>
    /\ Head(after_queue) = load_partners_callback
    /\ after_queue' = Tail(after_queue)
    /\ UNCHANGED <<partners, partner_seq, filter_status, refresh_threads, app>>
    /\ load_partners

\* PartnerDialog.save_partner for a new partner, to its message box.  With an
\* e-mail address the welcome mail is sent through self.email_manager, which
\* a PartnerDialog does not have: the AttributeError is caught, an error box
\* is shown, and the list is not loaded again.
save_new_partner(name, email, sales_text, commission_text, status) ==
    LET total_sales     == float(sales_text)
        commission_rate == float(commission_text)
        partner == [name |-> name, email |-> email, phone |-> "", company |-> "",
                    total_sales |-> cents_of_float(total_sales),
                    commission_rate |-> percent_of_float(commission_rate),
                    join_date |-> strftime(today), status |-> status, notes |-> "",
                    category |-> "general", region |-> "",
                    last_contact |-> strftime(today)]
    IN  /\ app.at = "mainloop"
        /\ UNCHANGED <<partner_tree, stats_label, filter_status, after_queue,
                       refresh_threads>>
        /\ IF name = "" \/ total_sales.raised \/ commission_rate.raised
           THEN UNCHANGED <<partners, partner_seq, app>>
           ELSE /\ add_partner(partner)
                /\ app' = IF email # "" THEN app ELSE [at |-> "added"]

\* edit_selected_partner and save_partner for the partner selected in the
\* Treeview, to its message box: the status is set.
save_edited_partner(item, status) ==
    LET partner_id == partner_tree[item][1]
    IN  /\ app.at = "mainloop"
        /\ item \in DOMAIN partner_tree
        /\ UNCHANGED <<partner_tree, stats_label, filter_status, after_queue,
                       refresh_threads>>
        /\ IF partner_id \in DOMAIN partners
           THEN /\ update_partner(partner_id,
                                  [partners[partner_id] EXCEPT !.status = status])
                /\ app' = [at |-> "updated"]
           ELSE UNCHANGED <<partners, partner_seq, app>>

\* save_partner after its message box: self.app.load_partners()
reload_after_save ==
    /\ app.at \in {"added", "updated"}
    /\ UNCHANGED <<partners, partner_seq, filter_status, after_queue,
                   refresh_threads>>
    /\ load_partners
    /\ app' = [at |-> "mainloop"]

\* delete_selected_partner, to its confirmation box
delete_selected_partner(item) ==
    /\ app.at = "mainloop"
    /\ item \in DOMAIN partner_tree
    /\ app' = [at |-> "confirm", partner_id |-> partner_tree[item][1]]
    /\ UNCHANGED <<partners, partner_seq, partner_tree, stats_label,
                   filter_status, after_queue, refresh_threads>>

\* delete_selected_partner after the confirmation box
confirm_delete(yes) ==
    /\ app.at = "confirm"
    /\ UNCHANGED <<filter_status, after_queue, refresh_threads>>
    /\ IF yes
       THEN /\ delete_partner(app.partner_id)
            /\ load_partners
       ELSE UNCHANGED <<partners, partner_seq, partner_tree, stats_label>>
    /\ app' = [at |-> "mainloop"]

\* apply_filters after the status filter was set
apply_filters(status) ==
    /\ app.at = "mainloop"
    /\ filter_status' = status
    /\ UNCHANGED <<partners, partner_seq, after_queue, refresh_threads, app>>
    /\ load_partners

\* File / Exit: root.quit
quit ==
    /\ app.at = "mainloop"
    /\ app' = [at |-> "closed"]
    /\ UNCHANGED <<partners, partner_seq, partner_tree, stats_label,
                   filter_status, after_queue, refresh_threads>>

not_partner_vars == <<bank_vars, error, menu_vars, erp_vars, calculator_vars, more_vars>>

AppInit == app_init /\ UNCHANGED not_partner_vars

AutoRefresh ==
    \E t \in DOMAIN refresh_threads :
        /\ Len(after_queue) < MaxPending
        /\ auto_refresh(t)
        /\ UNCHANGED not_partner_vars

RunScheduled == run_scheduled /\ UNCHANGED not_partner_vars

SaveNewPartner ==
    \E name \in NameTexts, email \in EmailTexts, sales_text \in SalesTexts,
       commission_text \in CommissionTexts, status \in Statuses :
        /\ partner_seq < MaxPartners
        /\ save_new_partner(name, email, sales_text, commission_text, status)
        /\ UNCHANGED not_partner_vars

SaveEditedPartner ==
    \E item \in DOMAIN partner_tree, status \in Statuses :
        save_edited_partner(item, status) /\ UNCHANGED not_partner_vars

ReloadAfterSave == reload_after_save /\ UNCHANGED not_partner_vars

DeleteSelectedPartner ==
    \E item \in DOMAIN partner_tree :
        delete_selected_partner(item) /\ UNCHANGED not_partner_vars

ConfirmDelete ==
    \E yes \in BOOLEAN : confirm_delete(yes) /\ UNCHANGED not_partner_vars

ApplyFilters ==
    \E status \in StatusFilters : apply_filters(status) /\ UNCHANGED not_partner_vars

Quit == quit /\ UNCHANGED not_partner_vars

NextPartner ==
    \/ AppInit
    \/ AutoRefresh
    \/ RunScheduled
    \/ SaveNewPartner
    \/ SaveEditedPartner
    \/ ReloadAfterSave
    \/ DeleteSelectedPartner
    \/ ConfirmDelete
    \/ ApplyFilters
    \/ Quit

SpecPartner == Init /\ [][NextPartner]_vars

(***************************************************************************)
(* SpecHistory: the history of the calculator (AdvancedCalculator).  The   *)
(* initial states are those after __init__: load_history has read          *)
(* calculator_history.json, which is missing, unreadable, or holds a list  *)
(* an earlier run saved.  A second passes between two calls, so that the   *)
(* timestamps number the entries.  save_history ignores every exception:   *)
(* a write that fails leaves the file as it was (open raised) or           *)
(* unreadable (the dump broke off).                                        *)
(***************************************************************************)
HistoryLimit == 100

MaxNow == 103

\* The lengths of the list an earlier run may have left in the file.
StoredLengths == {0, 1, 99, 100}

\* What the menus pass to add_to_history.
Expressions == {"2.0 + 3.0"}
ResultTexts == {"5.0"}
OperationTypes == {"basic"}

Unreadable == [exists |-> TRUE, readable |-> FALSE]

\* json.dump(self.history, f): the objects of the list, each with its keys
\* in the order of the entry.
json_dump(list) ==
    [exists |-> TRUE, readable |-> TRUE,
     content |-> [k \in DOMAIN list |->
                    <<<<"timestamp", list[k].timestamp>>,
                      <<"expression", list[k].expression>>,
                      <<"result", list[k].result>>,
                      <<"type", list[k].type>>>>]]

\* json.load(f) on a file json.dump wrote.
json_load(file) ==
    [k \in DOMAIN file.content |->
        [timestamp  |-> file.content[k][1][2],
         expression |-> file.content[k][2][2],
         result     |-> file.content[k][3][2],
         type       |-> file.content[k][4][2]]]

\* load_history, from self.history = []
load_history(file) ==
    IF file.exists
    THEN IF file.readable THEN json_load(file) ELSE <<>>
    ELSE <<>>

\* What save_history can leave in the file: the list, or, when an exception
\* was raised and ignored, the file as it was or a file that broke off.
save_history(list, file) == {json_dump(list), file, Unreadable}

\* The entries an earlier run saved at the seconds 1..n.
stored_history(n) ==
    [k \in 1..n |-> [timestamp |-> k, expression |-> "2.0 + 3.0",
                     result |-> "5.0", type |-> "basic"]]

InitialFiles ==
    {NoFile, Unreadable} \cup {json_dump(stored_history(n)) : n \in StoredLengths}

\* list[:n]
keep_first(list, n) == SubSeq(list, 1, n)

\* list[-n:]
keep_last(list, n) == SubSeq(list, Len(list) - n + 1, Len(list))

add_to_history(expression, result, operation_type) ==
    LET entry == [timestamp |-> now', expression |-> expression,
                  result |-> result, type |-> operation_type]
        appended == Append(history, entry)
    IN  /\ history' = IF Len(appended) > HistoryLimit
                      THEN keep_last(appended, HistoryLimit)
                      ELSE appended
        /\ history_file' \in save_history(history', history_file)

InitHistory ==
    /\ loans = <<>>
    /\ payments = <<>>
    /\ payment_seq = 0
    /\ today = strptime(StartDate)
    /\ error = NoError
    /\ calc = NoCalc
    /\ pc = AtMenu
    /\ output = NoOutput
    /\ InitErp
    /\ InitNoPartnerApp
    /\ InitNoBook
    /\ InitNoCatalog
    /\ history_file \in InitialFiles
    /\ history = load_history(history_file)
    /\ now = Len(history)
    /\ memory = IntZero

AddToHistory ==
    \E expression \in Expressions, result \in ResultTexts,
       operation_type \in OperationTypes :
        /\ now < MaxNow
        /\ now' = now + 1
        /\ add_to_history(expression, result, operation_type)
        /\ UNCHANGED <<memory, bank_vars, error, menu_vars, erp_vars, partner_vars, more_vars>>

NextHistory == AddToHistory

SpecHistory == InitHistory /\ [][NextHistory]_vars

(***************************************************************************)
(* SpecCalculator: the basic operations menu and the memory menu of the    *)
(* calculator (CalculatorInterface.run).  A float is a sign and a          *)
(* fraction in lowest terms, so that -0.0 differs from 0.0.  The numbers   *)
(* typed are such that every result is a binary fraction, which float      *)
(* arithmetic computes exactly and str() prints in full.                   *)
(***************************************************************************)
MaxEntries == 1

\* The texts typed at the prompts of the two menus.
ChoiceTexts == {"0", "1", "2", "3", "4", "5", "6", "7"}
NumberTexts == {<<"0">>, <<"-", "1">>, <<"x">>}
MemoryTexts == {<<"2">>, <<"x">>}

RECURSIVE gcd(_, _)
gcd(a, b) == IF b = 0 THEN a ELSE gcd(b, a % b)

RECURSIVE power_of(_, _)
power_of(b, n) == IF n = 0 THEN 1 ELSE b * power_of(b, n - 1)

\* A float with the given sign and magnitude num / den.
Float(neg, num, den) ==
    [type |-> "float", neg |-> neg,
     num |-> num \div gcd(num, den), den |-> den \div gcd(num, den)]

\* The float of a text float() accepted.
float_value(x) ==
    Float(x.mantissa < 0, Abs(x.mantissa), power_of(10, x.decimals))

\* An int operand is converted to float.
as_float(v) == IF v.type = "int" THEN Float(v.value < 0, Abs(v.value), 1) ELSE v

signed_num(v) == IF v.neg THEN -v.num ELSE v.num

\* x + y: a zero sum is -0.0 only when both operands are negative.
float_add(x, y) ==
    LET n == signed_num(x) * y.den + signed_num(y) * x.den
    IN  IF n = 0 THEN Float(x.neg /\ y.neg, 0, 1)
        ELSE Float(n < 0, Abs(n), x.den * y.den)

\* x - y
float_sub(x, y) == float_add(x, [y EXCEPT !.neg = ~y.neg])

\* x * y
float_mul(x, y) == Float(x.neg # y.neg, x.num * y.num, x.den * y.den)

\* x / y, y not zero
float_div(x, y) == Float(x.neg # y.neg, x.num * y.den, x.den * y.num)

\* x ** y for an integral y: 0.0 to a negative power raises.
float_pow(x, y) ==
    LET odd == y.num % 2 = 1
    IN  IF y.num = 0 THEN [raised |-> NoError, value |-> Float(FALSE, 1, 1)]
        ELSE IF x.num = 0 /\ y.neg
        THEN [raised |-> ZeroDivisionError, value |-> None]
        ELSE IF y.neg
        THEN [raised |-> NoError,
              value |-> Float(x.neg /\ odd, power_of(x.den, y.num),
                              power_of(x.num, y.num))]
        ELSE [raised |-> NoError,
              value |-> Float(x.neg /\ odd, power_of(x.num, y.num),
                              power_of(x.den, y.num))]

\* x % y, y not zero: the remainder has the sign of y.
float_mod(x, y) ==
    LET a == x.num * y.den
        b == y.num * x.den
        r == a % b
    IN  IF r = 0 THEN Float(y.neg, 0, 1)
        ELSE IF x.neg # y.neg THEN Float(y.neg, b - r, x.den * y.den)
        ELSE Float(x.neg, r, x.den * y.den)

digit_text(d) ==
    CASE d = 0 -> "0" [] d = 1 -> "1" [] d = 2 -> "2" [] d = 3 -> "3"
      [] d = 4 -> "4" [] d = 5 -> "5" [] d = 6 -> "6" [] d = 7 -> "7"
      [] d = 8 -> "8" [] d = 9 -> "9"

RECURSIVE int_digits(_)
int_digits(n) ==
    IF n < 10 THEN <<digit_text(n)>>
    ELSE int_digits(n \div 10) \o <<digit_text(n % 10)>>

RECURSIVE fraction_digits(_, _)
fraction_digits(rem, den) ==
    IF rem = 0 THEN <<>>
    ELSE <<digit_text((rem * 10) \div den)>> \o fraction_digits((rem * 10) % den, den)

\* str(v), and {v} in an f-string
str(v) ==
    IF v.type = "int"
    THEN (IF v.value < 0 THEN <<"-">> ELSE <<>>) \o int_digits(Abs(v.value))
    ELSE LET fraction == fraction_digits(v.num % v.den, v.den)
         IN  (IF v.neg THEN <<"-">> ELSE <<>>)
             \o int_digits(v.num \div v.den) \o <<".">>
             \o (IF fraction = <<>> THEN <<"0">> ELSE fraction)

DivisionByZero == <<"Oshibka: delenie na nol'!">>
UnknownOperation == <<"Neizvestnaja operacija">>

\* The result and the expression basic_operations returns ("*" and "/"
\* stand for the multiplication and division signs), or what it raises.
basic_operations(x, y, operation) ==
    LET returned(result, sign) ==
            [raised |-> NoError, result |-> result,
             expression |-> str(x) \o <<" ", sign, " ">> \o str(y)]
        failed(message) ==
            [raised |-> NoError, result |-> None, expression |-> message]
    IN  CASE operation = "add" -> returned(float_add(x, y), "+")
          [] operation = "subtract" -> returned(float_sub(x, y), "-")
          [] operation = "multiply" -> returned(float_mul(x, y), "*")
          [] operation = "divide" ->
                IF y.num = 0 THEN failed(DivisionByZero)
                ELSE returned(float_div(x, y), "/")
          [] operation = "power" ->
                IF float_pow(x, y).raised # NoError
                THEN [raised |-> float_pow(x, y).raised, result |-> None,
                      expression |-> <<>>]
                ELSE returned(float_pow(x, y).value, "^")
          [] operation = "modulo" ->
                IF y.num = 0 THEN failed(DivisionByZero)
                ELSE returned(float_mod(x, y), "mod")
          [] OTHER -> failed(UnknownOperation)

\* operations of basic_operations_menu
basic_operation_of(choice) ==
    CASE choice = "1" -> "add" [] choice = "2" -> "subtract"
      [] choice = "3" -> "multiply" [] choice = "4" -> "divide"
      [] choice = "5" -> "power" [] choice = "6" -> "modulo"

WrongChoice == <<<<"Nevernyj vybor!">>>>
WrongNumber == <<<<"Oshibka: vvedite korrektnoe chislo!">>>>

not_calculator_vars == <<bank_vars, erp_vars, partner_vars, more_vars>>

\* The end of a menu that does not look at the result.
report_unchecked(returned, operation_type) ==
    /\ output' = <<<<"Rezul'tat", returned.expression, <<"None">>>>>>
    /\ now' = now + 1
    /\ add_to_history(returned.expression, <<"None">>, operation_type)

\* The end of both menus: the result is printed and added to the history,
\* or the message is printed.
report(returned, operation_type) ==
    IF returned.result # None
    THEN /\ output' = <<<<"Rezul'tat", returned.expression, str(returned.result)>>>>
         /\ now' = now + 1
         /\ add_to_history(returned.expression, str(returned.result), operation_type)
    ELSE /\ output' = <<<<"Oshibka", returned.expression>>>>
         /\ UNCHANGED <<history, history_file, now>>

basic_operations_menu(choice, text1, text2) ==
    LET num1 == float(text1)
        num2 == float(text2)
        returned == basic_operations(float_value(num1), float_value(num2),
                                     basic_operation_of(choice))
    IN  /\ pc = AtMenu
        /\ error = NoError
        /\ IF choice = "0"
           THEN /\ output' = NoOutput
                /\ UNCHANGED <<error, calculator_vars>>
           ELSE IF choice \notin {"1", "2", "3", "4", "5", "6"}
           THEN /\ output' = WrongChoice
                /\ UNCHANGED <<error, calculator_vars>>
           ELSE IF num1.raised \/ num2.raised
           THEN /\ output' = WrongNumber
                /\ UNCHANGED <<error, calculator_vars>>
           ELSE IF returned.raised # NoError
           THEN /\ error' = returned.raised
                /\ UNCHANGED <<output, calculator_vars>>
           ELSE /\ report(returned, "basic")
                /\ UNCHANGED <<error, memory>>
        /\ UNCHANGED <<pc, not_calculator_vars>>

\* The register after memory_operations, with what it returns.
memory_operations(operation, value) ==
    LET returned(result, expression) ==
            [result |-> result, expression |-> expression]
        sum == float_add(as_float(memory), value)
        difference == float_sub(as_float(memory), value)
    IN  CASE operation = "store" ->
                [memory |-> value,
                 returned |-> returned(value, <<"M", " ", "=", " ">> \o str(value))]
          [] operation = "recall" ->
                [memory |-> memory,
                 returned |-> returned(memory, <<"M", " ", "=", " ">> \o str(memory))]
          [] operation = "add" ->
                [memory |-> sum,
                 returned |-> returned(sum, <<"M", " ", "+=", " ">> \o str(value)
                                            \o <<" ", "=", " ">> \o str(sum))]
          [] operation = "subtract" ->
                [memory |-> difference,
                 returned |-> returned(difference,
                                       <<"M", " ", "-=", " ">> \o str(value)
                                       \o <<" ", "=", " ">> \o str(difference))]
          [] operation = "clear" ->
                [memory |-> IntZero,
                 returned |-> returned(IntZero, <<"M", " ", "=", " ", "0">>)]

\* operations of memory_menu
memory_operation_of(choice) ==
    CASE choice = "1" -> "store" [] choice = "2" -> "recall"
      [] choice = "3" -> "add" [] choice = "4" -> "subtract"
      [] choice = "5" -> "clear"

memory_menu(choice, text) ==
    LET typed == float(text)
        \* value: float = 0 where no value is asked for
        value == IF choice \in {"1", "3", "4"} THEN float_value(typed)
                 ELSE Float(FALSE, 0, 1)
        done == memory_operations(memory_operation_of(choice), value)
    IN  /\ pc = AtMenu
        /\ error = NoError
        /\ IF choice = "0"
           THEN /\ output' = NoOutput
                /\ UNCHANGED calculator_vars
           ELSE IF choice \notin {"1", "2", "3", "4", "5"}
           THEN /\ output' = WrongChoice
                /\ UNCHANGED calculator_vars
           ELSE IF choice \in {"1", "3", "4"} /\ typed.raised
           THEN /\ output' = WrongNumber
                /\ UNCHANGED calculator_vars
           ELSE /\ memory' = done.memory
                /\ report(done.returned, "memory")
        /\ UNCHANGED <<pc, error, not_calculator_vars>>

\* The calculator after CalculatorInterface(): the history file is missing
\* or unreadable.
InitCalculator ==
    /\ loans = <<>>
    /\ payments = <<>>
    /\ payment_seq = 0
    /\ today = strptime(StartDate)
    /\ error = NoError
    /\ calc = NoCalc
    /\ pc = AtMenu
    /\ output = NoOutput
    /\ InitErp
    /\ InitNoPartnerApp
    /\ InitNoBook
    /\ InitNoCatalog
    /\ history_file \in {NoFile, Unreadable}
    /\ history = load_history(history_file)
    /\ now = 0
    /\ memory = IntZero

\* The history may grow while it has fewer than MaxEntries entries.
may_add == Len(history') <= MaxEntries

\* The numbers are asked for only after a choice the menu knows.
BasicOperationsMenu ==
    \E choice \in ChoiceTexts :
        \E text1 \in IF choice \in {"1", "2", "3", "4", "5", "6"}
                      THEN NumberTexts ELSE {<<>>},
           text2 \in IF choice \in {"1", "2", "3", "4", "5", "6"}
                      THEN NumberTexts ELSE {<<>>} :
            /\ basic_operations_menu(choice, text1, text2)
            /\ may_add

MemoryMenu ==
    \E choice \in ChoiceTexts :
        \E text \in IF choice \in {"1", "3", "4"} THEN MemoryTexts ELSE {<<>>} :
            /\ memory_menu(choice, text)
            /\ may_add

NextCalculator == BasicOperationsMenu \/ MemoryMenu

SpecCalculator == InitCalculator /\ [][NextCalculator]_vars

(***************************************************************************)
(* SpecBook: the education book (enhanced_education_book.py), run again    *)
(* and again in one directory.  A run starts with the constructor of       *)
(* EnhancedEducationalBook, which reads content.json and, through          *)
(* ProgressTracker, opens education_progress.db: sqlite3.connect creates   *)
(* the file when it is missing.                                            *)
(***************************************************************************)
ContentFile == "content.json"
DbFile == "education_progress.db"

AttributeError == "AttributeError"

AdminName == "admin"
AdminPassword == <<"a", "d", "m", "i", "n", "1", "2", "3">>

\* The texts typed at the prompts of login and register.
UserNames == {"admin", "anna", "boris"}
Passwords == {AdminPassword, <<"s", "e", "c", "r", "e", "t">>, <<"a", "b", "c">>}

MinPasswordLength == 6

\* hashlib.sha256(password.encode()).hexdigest()
sha256(password) == <<"sha256">> \o password

\* User("Gost'", "", 0)
Guest == [user_id |-> 0, username |-> "Gost'", is_admin |-> FALSE]

\* ProgressTracker.create_user: the table after it and what it returns;
\* the UNIQUE username makes the INSERT raise IntegrityError.
create_user(table, username, password, is_admin) ==
    IF \E k \in DOMAIN table : table[k].username = username
    THEN [returned |-> FALSE, users |-> table]
    ELSE [returned |-> TRUE,
          users |-> Append(table, [id |-> Len(table) + 1,
                                   username |-> username,
                                   password_hash |-> sha256(password),
                                   is_admin |-> is_admin])]

\* ProgressTracker.authenticate_user
authenticate_user(username, password) ==
    LET rows == {k \in DOMAIN users : /\ users[k].username = username
                                      /\ users[k].password_hash = sha256(password)}
    IN  IF rows = {} THEN None
        ELSE LET k == CHOOSE k \in rows : TRUE
             IN  [user_id |-> users[k].id, username |-> users[k].username,
                  is_admin |-> users[k].is_admin]

\* EnhancedEducationalBook.__init__ raises in load_content when content.json
\* is missing: save_content uses self.content_manager, which is set later.
load_content_raises == ContentFile \notin files

\* ProgressTracker.init_database: sqlite3.connect(self.db_path)
init_database == files \cup {DbFile}

\* The program from its start to the login menu.
book_main ==
    /\ book.at \in {"none", "exit", "crashed"}
    /\ IF load_content_raises
       THEN /\ error' = AttributeError
            /\ book' = [at |-> "crashed"]
            /\ UNCHANGED <<users, files>>
       ELSE /\ error' = NoError
            /\ files' = init_database
            \* if not os.path.exists("education_progress.db")
            /\ users' = IF DbFile \notin files'
                        THEN create_user(users, AdminName, AdminPassword, TRUE).users
                        ELSE users
            /\ book' = [at |-> "login_menu", current_user |-> None]

\* login_menu, choice '1'
book_login(username, password) ==
    LET user == authenticate_user(username, password)
    IN  /\ book.at = "login_menu"
        /\ book' = IF user # None
                   THEN [at |-> "main_menu", current_user |-> user]
                   ELSE book
        /\ UNCHANGED <<users, files, error>>

\* login_menu, choice '2'
book_register(username, password, confirm_password) ==
    /\ book.at = "login_menu"
    /\ users' = IF password # confirm_password \/ Len(password) < MinPasswordLength
                THEN users
                ELSE create_user(users, username, password, FALSE).users
    /\ UNCHANGED <<files, book, error>>

\* login_menu, choice '3'
book_guest ==
    /\ book.at = "login_menu"
    /\ book' = [at |-> "main_menu", current_user |-> Guest]
    /\ UNCHANGED <<users, files, error>>

\* main_menu, choice '0': logout clears the user unless it is the guest.
book_leave ==
    /\ book.at = "main_menu"
    /\ book' = [at |-> "login_menu",
                current_user |-> IF book.current_user.user_id # 0 THEN None
                                 ELSE book.current_user]
    /\ UNCHANGED <<users, files, error>>

\* login_menu, choice '0'
book_exit ==
    /\ book.at = "login_menu"
    /\ book' = [at |-> "exit"]
    /\ UNCHANGED <<users, files, error>>

not_book_vars == <<bank_vars, menu_vars, erp_vars, calculator_vars, partner_vars,
                   catalog_vars, change_history>>

\* The directory before the first run, with or without content.json.
InitBook ==
    /\ loans = <<>>
    /\ payments = <<>>
    /\ payment_seq = 0
    /\ today = strptime(StartDate)
    /\ error = NoError
    /\ calc = NoCalc
    /\ pc = AtMenu
    /\ output = NoOutput
    /\ InitErp
    /\ InitNoCalculator
    /\ InitNoPartnerApp
    /\ InitNoCatalog
    /\ users = <<>>
    /\ files \in {{}, {ContentFile}}
    /\ book = [at |-> "none"]

BookMain == book_main /\ UNCHANGED not_book_vars

BookLogin ==
    \E username \in UserNames, password \in Passwords :
        book_login(username, password) /\ UNCHANGED not_book_vars

BookRegister ==
    \E username \in UserNames, password \in Passwords, confirm_password \in Passwords :
        book_register(username, password, confirm_password) /\ UNCHANGED not_book_vars

BookGuest == book_guest /\ UNCHANGED not_book_vars

BookLeave == book_leave /\ UNCHANGED not_book_vars

BookExit == book_exit /\ UNCHANGED not_book_vars

NextBook ==
    \/ BookMain
    \/ BookLogin
    \/ BookRegister
    \/ BookGuest
    \/ BookLeave
    \/ BookExit

SpecBook == InitBook /\ [][NextBook]_vars

(***************************************************************************)
(* SpecCatalog: the Flask catalog (reklama/app.py) serving the requests    *)
(* of several browsers, one request at a time.  A browser keeps the        *)
(* session cookie the last response gave it.                               *)
(***************************************************************************)
MaxCatalogProducts == 2

Clients == {"c1", "c2"}
Methods == {"GET", "POST"}

\* The fields of the forms.
LoginNames == {"admin", "anna"}
LoginPasswords == {<<"a", "d", "m", "i", "n", "1", "2", "3">>, <<"q">>}
CatalogNames == {"lampa"}
Descriptions == {"nastol'naja"}
CatalogPriceTexts == {<<"9", ".", "5">>, <<"x">>}
ProductIds == {1, 2}

\* werkzeug: generate_password_hash(password), with the salt it drew
generate_password_hash(password, salt) ==
    [method |-> "scrypt", salt |-> salt, digest |-> <<salt>> \o password]

\* werkzeug: check_password_hash(pwhash, password)
check_password_hash(pwhash, password) ==
    pwhash = generate_password_hash(password, pwhash.salt)

\* The tables after init_db on a new database.db.
init_db ==
    /\ catalog_products = <<>>
    /\ catalog_seq = 0
    /\ catalog_users = <<[id |-> 1, username |-> "admin",
                         password_hash |->
                            generate_password_hash(
                                <<"a", "d", "m", "i", "n", "1", "2", "3">>, "s1")]>>

\* The session without any key.
NoSession == {}

\* 'user_id' in session
has_user_id(session) == \E pair \in session : pair[1] = "user_id"

redirect(client, endpoint) ==
    [client |-> client, status |-> 302, location |-> endpoint]

render_template(client, template) ==
    [client |-> client, status |-> 200, template |-> template]

aborted(client, status) == [client |-> client, status |-> status]

\* A view without the login_required decorator.
login_unchecked(client, view) == view

\* decorated_function of login_required
login_required(client, view) ==
    IF ~has_user_id(sessions[client])
    THEN /\ response' = redirect(client, "login")
         /\ UNCHANGED <<catalog_products, catalog_seq, catalog_users, sessions>>
    ELSE view

\* /login
login(client, method, username, password) ==
    LET rows == {k \in DOMAIN catalog_users : catalog_users[k].username = username}
        user == catalog_users[CHOOSE k \in rows : TRUE]
    IN  /\ UNCHANGED <<catalog_products, catalog_seq, catalog_users>>
        /\ IF method = "POST"
           THEN IF rows # {} /\ check_password_hash(user.password_hash, password)
                THEN /\ sessions' = [sessions EXCEPT ![client] =
                                        {pair \in @ : pair[1] \notin {"user_id", "username"}}
                                        \cup {<<"user_id", user.id>>,
                                              <<"username", user.username>>}]
                     /\ response' = redirect(client, "admin_panel")
                ELSE /\ sessions' = [sessions EXCEPT ![client] =
                                        @ \cup {<<"_flashes", "Nevernoe imja ili parol'">>}]
                     /\ response' = render_template(client, "login.html")
           ELSE /\ response' = render_template(client, "login.html")
                /\ UNCHANGED sessions

\* /logout
logout(client) ==
    /\ sessions' = [sessions EXCEPT ![client] = NoSession]
    /\ response' = redirect(client, "index")
    /\ UNCHANGED <<catalog_products, catalog_seq, catalog_users>>

\* /admin
admin_panel(client) ==
    login_required(client,
        /\ response' = render_template(client, "admin.html")
        /\ UNCHANGED <<catalog_products, catalog_seq, catalog_users, sessions>>)

\* /add_product: float(price) raises ValueError on a text that is no
\* number, and the request ends with status 500.
catalog_add_product(client, method, name, description, price) ==
    login_required(client,
        /\ UNCHANGED <<catalog_users, sessions>>
        /\ IF method = "POST"
           THEN IF float(price).raised
                THEN /\ response' = aborted(client, 500)
                     /\ UNCHANGED <<catalog_products, catalog_seq>>
                ELSE /\ catalog_seq' = catalog_seq + 1
                     /\ catalog_products' =
                            Append(catalog_products,
                                   [id |-> catalog_seq', name |-> name,
                                    description |-> description,
                                    price |-> float_value(float(price))])
                     /\ response' = redirect(client, "admin_panel")
           ELSE /\ response' = render_template(client, "edit_product.html")
                /\ UNCHANGED <<catalog_products, catalog_seq>>)

\* /edit_product/<int:product_id>
edit_product(client, method, product_id, name, description, price) ==
    login_required(client,
        /\ UNCHANGED <<catalog_users, sessions, catalog_seq>>
        /\ IF method = "POST"
           THEN IF float(price).raised
                THEN /\ response' = aborted(client, 500)
                     /\ UNCHANGED catalog_products
                ELSE /\ catalog_products' =
                            [k \in DOMAIN catalog_products |->
                                IF catalog_products[k].id = product_id
                                THEN [id |-> product_id, name |-> name,
                                      description |-> description,
                                      price |-> float_value(float(price))]
                                ELSE catalog_products[k]]
                     /\ response' = redirect(client, "admin_panel")
           ELSE /\ response' =
                      IF \E k \in DOMAIN catalog_products :
                            catalog_products[k].id = product_id
                      THEN render_template(client, "edit_product.html")
                      ELSE aborted(client, 404)
                /\ UNCHANGED catalog_products)

\* /delete_product/<int:product_id>
delete_product(client, product_id) ==
    login_required(client,
        /\ catalog_products' = SelectSeq(catalog_products,
                                         LAMBDA row : row.id # product_id)
        /\ response' = redirect(client, "admin_panel")
        /\ UNCHANGED <<catalog_users, sessions, catalog_seq>>)

not_catalog_vars == <<bank_vars, error, menu_vars, erp_vars, calculator_vars,
                      partner_vars, book_vars, change_history>>

\* The application after init_db, no browser having a cookie yet.
InitCatalog ==
    /\ loans = <<>>
    /\ payments = <<>>
    /\ payment_seq = 0
    /\ today = strptime(StartDate)
    /\ error = NoError
    /\ calc = NoCalc
    /\ pc = AtMenu
    /\ output = NoOutput
    /\ InitErp
    /\ InitNoCalculator
    /\ InitNoPartnerApp
    /\ InitNoBook
    /\ init_db
    /\ sessions = [client \in Clients |-> NoSession]
    /\ response = <<>>
    /\ change_history = <<>>

Login ==
    \E client \in Clients, method \in Methods, username \in LoginNames,
       password \in LoginPasswords :
        login(client, method, username, password) /\ UNCHANGED not_catalog_vars

Logout == \E client \in Clients : logout(client) /\ UNCHANGED not_catalog_vars

AdminPanel == \E client \in Clients : admin_panel(client) /\ UNCHANGED not_catalog_vars

CatalogAddProduct ==
    \E client \in Clients, method \in Methods, name \in CatalogNames,
       description \in Descriptions, price \in CatalogPriceTexts :
        /\ catalog_seq < MaxCatalogProducts
        /\ catalog_add_product(client, method, name, description, price)
        /\ UNCHANGED not_catalog_vars

EditProduct ==
    \E client \in Clients, method \in Methods, product_id \in ProductIds,
       name \in CatalogNames \cup {"torsher"}, description \in Descriptions,
       price \in CatalogPriceTexts :
        /\ edit_product(client, method, product_id, name, description, price)
        /\ UNCHANGED not_catalog_vars

DeleteProduct ==
    \E client \in Clients, product_id \in ProductIds :
        delete_product(client, product_id) /\ UNCHANGED not_catalog_vars

NextCatalog ==
    \/ Login
    \/ Logout
    \/ AdminPanel
    \/ CatalogAddProduct
    \/ EditProduct
    \/ DeleteProduct

SpecCatalog == InitCatalog /\ [][NextCatalog]_vars

(***************************************************************************)
(* SpecChange: the partner database behind AdvancedDatabaseManager, used   *)
(* through add_partner_with_history and update_partner_with_history.  The  *)
(* old partner is the object get_all_partners returned, the new one a copy *)
(* with some fields edited.  One partner is added and then edited.         *)
(***************************************************************************)
MaxLogged == 8

HistoryUsers == {"system", "olga"}

\* The fields the log follows, in the order of the list changes.
TrackedFields == <<"name", "email", "phone", "company", "total_sales", "status",
                   "category">>

\* The sets of fields an edit changes at once.
EditedFields ==
    {{}, {"commission_rate"}, {"total_sales", "notes"}, {"email", "status"},
     {"name", "email", "phone", "company", "total_sales", "status", "category"}}

\* The partner the dialog adds first.
FirstPartner ==
    [name |-> "Anna", email |-> "", phone |-> "", company |-> "",
     total_sales |-> 10050, commission_rate |-> 10, join_date |-> strftime(today),
     status |-> "active", notes |-> "", category |-> "general", region |-> "",
     last_contact |-> strftime(today)]

\* The other value an edit gives a field.
edited_value(field, value) ==
    CASE field = "name" -> IF value = "Anna" THEN "Boris" ELSE "Anna"
      [] field = "email" -> IF value = "" THEN "anna@example.org" ELSE ""
      [] field = "phone" -> IF value = "" THEN "123" ELSE ""
      [] field = "company" -> IF value = "" THEN "Acme" ELSE ""
      [] field = "total_sales" -> IF value = 10050 THEN 20000 ELSE 10050
      [] field = "status" -> IF value = "active" THEN "inactive" ELSE "active"
      [] field = "category" -> IF value = "general" THEN "vip" ELSE "general"
      [] field = "commission_rate" -> IF value = 10 THEN 15 ELSE 10
      [] field = "notes" -> IF value = "" THEN "VIP" ELSE ""

edited(partner, fields) ==
    [id |-> partner.id,
     row |-> [field \in DOMAIN partner.row |->
                IF field \in fields THEN edited_value(field, partner.row[field])
                ELSE partner.row[field]]]

\* str(partner.total_sales): the float of the cents
sales_text(cents) == str(Float(cents < 0, Abs(cents), 100))

\* changes of update_partner_with_history
changes(partner, old_partner) ==
    <<<<"name", old_partner.row.name, partner.row.name>>,
      <<"email", old_partner.row.email, partner.row.email>>,
      <<"phone", old_partner.row.phone, partner.row.phone>>,
      <<"company", old_partner.row.company, partner.row.company>>,
      <<"total_sales", sales_text(old_partner.row.total_sales),
                       sales_text(partner.row.total_sales)>>,
      <<"status", old_partner.row.status, partner.row.status>>,
      <<"category", old_partner.row.category, partner.row.category>>>>

\* The loop without its test: every field is logged.
logged_all(list) == list

\* if old_val != new_val
logged(list) == SelectSeq(list, LAMBDA change : change[2] # change[3])

\* The row INSERT INTO change_history adds.
history_row(partner_id, field_name, old_value, new_value, user) ==
    [partner_id |-> partner_id, field_name |-> field_name,
     old_value |-> old_value, new_value |-> new_value,
     change_date |-> strftime(today), user |-> user]

add_partner_with_history(partner, user) ==
    /\ add_partner(partner)
    /\ change_history' = Append(change_history,
                                history_row(partner_seq', "creation", "", "created",
                                            user))

update_partner_with_history(partner, old_partner, user) ==
    LET inserted == logged(changes(partner, old_partner))
    IN  /\ change_history' =
              change_history \o
              [k \in DOMAIN inserted |->
                  history_row(partner.id, inserted[k][1], inserted[k][2],
                              inserted[k][3], user)]
        /\ update_partner(partner.id, partner.row)

not_change_vars == <<bank_vars, error, menu_vars, erp_vars, calculator_vars,
                     partner_tree, stats_label, filter_status, after_queue,
                     refresh_threads, app, book_vars, catalog_vars>>

\* The log may grow to MaxLogged rows.
may_log == Len(change_history') <= MaxLogged

AddPartnerWithHistory ==
    \E user \in HistoryUsers :
        /\ partner_seq = 0
        /\ add_partner_with_history(FirstPartner, user)
        /\ may_log
        /\ UNCHANGED not_change_vars

UpdatePartnerWithHistory ==
    \E k \in DOMAIN get_all_partners(partners), fields \in EditedFields,
       user \in HistoryUsers :
        LET old_partner == get_all_partners(partners)[k]
        IN  /\ update_partner_with_history(edited(old_partner, fields),
                                           old_partner, user)
            /\ may_log
            /\ UNCHANGED not_change_vars

NextChange == AddPartnerWithHistory \/ UpdatePartnerWithHistory

SpecChange == Init /\ [][NextChange]_vars

(***************************************************************************)
(* Properties of the settlement and of the schedule (Spec).                *)
(***************************************************************************)
schedule_of(ps, loan_id) == {i \in DOMAIN ps : ps[i].loan_id = loan_id}

unpaid_of(ps, loan_id) == {i \in schedule_of(ps, loan_id) : ps[i].paid = 0}

\* The order of two "%Y-%m-%d" strings.
date_less(a, b) ==
    \/ a[1] < b[1]
    \/ a[1] = b[1] /\ a[2] < b[2]
    \/ a[1] = b[1] /\ a[2] = b[2] /\ a[3] < b[3]

\* C1: pay_payment on an existing unpaid entry makes the loan's status
\* 'Pogashen' when no other entry of that loan is unpaid afterwards, and
\* leaves the status as it was when another entry of the loan is still unpaid.
C1_PayLastEntryRepays ==
    [][\A payment_id \in DOMAIN payments :
          (payments[payment_id].paid = 0 /\ pay_payment(payment_id)) =>
              LET loan_id == payments[payment_id].loan_id
                  others  == unpaid_of(payments', loan_id) \ {payment_id}
              IN  /\ others = {} => loans'[loan_id].status = StatusRepaid
                  /\ others # {} => loans'[loan_id].status = loans[loan_id].status]_vars

\* A loan of two entries, paid one after the other, is repaid.
C1_Witness ==
    \E loan_id \in DOMAIN loans :
        /\ loans[loan_id].status = StatusRepaid
        /\ Cardinality(schedule_of(payments, loan_id)) = 2
        /\ unpaid_of(payments, loan_id) = {}

\* The schedule of loan_id has exactly term_months entries, numbered
\* 1..term_months without gap or duplicate, with due dates strictly
\* increasing in payment_number.
schedule_is_complete(loan_id) ==
    LET rows == schedule_of(payments, loan_id)
    IN  /\ Cardinality(rows) = loans[loan_id].term_months
        /\ {payments[i].payment_number : i \in rows} = 1..loans[loan_id].term_months
        /\ \A i, j \in rows :
              payments[i].payment_number < payments[j].payment_number =>
                  date_less(payments[i].due_date, payments[j].due_date)

\* C2, as claimed: every loan's schedule has exactly term_months entries,
\* numbered 1..term_months, with strictly increasing due dates.
C2_Original == \A loan_id \in DOMAIN loans : schedule_is_complete(loan_id)

\* C2, amended: every loan with term_months >= 0 has a schedule of exactly
\* term_months entries, numbered 1..term_months, with strictly increasing due
\* dates; a loan with a negative term_months has an empty schedule.
C2_ScheduleComplete ==
    \A loan_id \in DOMAIN loans :
        IF loans[loan_id].term_months >= 0 THEN schedule_is_complete(loan_id)
        ELSE schedule_of(payments, loan_id) = {}

\* A loan over two months with its two entries.
C2_Witness ==
    \E loan_id \in DOMAIN loans :
        /\ loans[loan_id].term_months = 2
        /\ Cardinality(schedule_of(payments, loan_id)) = 2

\* C3: a loan is created 'Otkryt'; the only change of a status is from
\* 'Otkryt' to 'Pogashen', made by pay_payment; no loan leaves 'Pogashen'.
C3_StatusMachine ==
    [][/\ \A loan_id \in DOMAIN loans :
             /\ loan_id \in DOMAIN loans'
             /\ loans'[loan_id].status # loans[loan_id].status =>
                   /\ loans[loan_id].status = StatusOpen
                   /\ loans'[loan_id].status = StatusRepaid
                   /\ \E payment_id \in DOMAIN payments : pay_payment(payment_id)
             /\ loans[loan_id].status = StatusRepaid =>
                   loans'[loan_id].status = StatusRepaid
       /\ \A loan_id \in DOMAIN loans' \ DOMAIN loans :
             loans'[loan_id].status = StatusOpen]_vars

\* A repaid loan whose schedule was generated again (it has an unpaid entry)
\* is still 'Pogashen', beside a loan that is 'Otkryt'.
C3_Witness ==
    \E a, b \in DOMAIN loans :
        /\ loans[a].status = StatusRepaid
        /\ unpaid_of(payments, a) # {}
        /\ loans[b].status = StatusOpen

\* C4: generate_payment_schedule(loan_id) on an existing loan leaves as the
\* payments of that loan exactly the newly inserted entries, none of an
\* earlier schedule; for a loan_id no loan has, payments is unchanged.
C4_ScheduleReplaced ==
    [][\A loan_id \in 1..(Len(loans) + 1) :
          generate_payment_schedule(loan_id) =>
              IF loan_id \in DOMAIN loans
              THEN /\ schedule_of(payments', loan_id) = (payment_seq + 1)..payment_seq'
                   /\ schedule_of(payments', loan_id) \cap DOMAIN payments = {}
                   /\ Cardinality(schedule_of(payments', loan_id))
                         = Max(loans[loan_id].term_months, 0)
              ELSE payments' = payments /\ payment_seq' = payment_seq]_vars

\* A schedule with a paid entry was replaced: the loan is repaid, none of its
\* entries is paid, and an id of payments is gone.
C4_Witness ==
    \E loan_id \in DOMAIN loans :
        /\ loans[loan_id].status = StatusRepaid
        /\ schedule_of(payments, loan_id) # {}
        /\ unpaid_of(payments, loan_id) = schedule_of(payments, loan_id)
        /\ \E i \in 1..payment_seq : i \notin DOMAIN payments

(***************************************************************************)
(* Properties of calculate_annuity_payment (SpecCalc) and of the amounts   *)
(* and dates of a schedule.                                                *)
(***************************************************************************)
zero_rate_call ==
    /\ calc.phase \in {"computed", "raised"}
    /\ calc.annual_rate_percent = 0
    /\ calc.term_months > 0

\* C5, as claimed: for rate 0 and term_months > 0 the call does not raise
\* and returns exactly amount / term_months.
C5_Original ==
    zero_rate_call =>
        /\ calc.phase = "computed"
        /\ calc.payment * calc.term_months = calc.amount

\* C5, amended: for rate 0 and term_months > 0 the call does not raise and
\* returns amount / term_months rounded to two decimals: a whole number of
\* cents at most half a cent from amount / term_months, which is
\* amount / term_months itself when that is a whole number of cents.
C5_ZeroRateRounded ==
    zero_rate_call =>
        /\ calc.phase = "computed"
        /\ 2 * Abs(calc.payment * calc.term_months - calc.amount) <= calc.term_months
        /\ calc.amount % calc.term_months = 0 =>
              calc.payment * calc.term_months = calc.amount

\* 100.00 over 3 months at rate 0 gives 33.33.
C5_Witness ==
    /\ zero_rate_call
    /\ calc.phase = "computed"
    /\ calc.amount = 10000
    /\ calc.term_months = 3
    /\ calc.payment = 3333

\* C6: for rate > 0, amount > 0 and term_months > 0, after term_months steps
\* balance := balance * (1 + rate/12) - payment from balance = amount, the
\* balance is zero up to the rounding of the payment: at most half a cent
\* compounded over the term, |balance| <= 0.005 * ((1 + r)^n - 1) / r with
\* r = rate/12.  In integers, with the balance as calc.balance / 1200^n:
\*     2 * rate% * |calc.balance| <= 1200 * ((1200 + rate%)^n - 1200^n).
C6_BalanceNearZero ==
    (/\ calc.phase = "computed"
     /\ calc.annual_rate_percent > 0
     /\ calc.amount > 0
     /\ calc.term_months > 0
     /\ calc.k = calc.term_months) =>
        LET den == 100 * MonthsPerYear
            qn  == BigPow(BigOfInt(den + calc.annual_rate_percent), calc.term_months)
            dn  == BigPow(BigOfInt(den), calc.term_months)
        IN  BigCmp(BigMul(BigOfInt(2 * calc.annual_rate_percent), calc.balance.mag),
                   BigMul(BigOfInt(den), BigSub(qn, dn))) <= 0

\* 120000 at 12% is paid down over its 12 months, to a balance that is not
\* zero.
C6_Witness ==
    /\ calc.phase = "computed"
    /\ calc.amount = 12000000
    /\ calc.annual_rate_percent = 12
    /\ calc.term_months = 12
    /\ calc.k = 12
    /\ calc.balance.mag # <<>>

\* The loans created by create_loan(client, 120000, 12, 12).
is_example_loan(loan_id) ==
    /\ loans[loan_id].amount = 12000000
    /\ loans[loan_id].term_months = 12
    /\ loans[loan_id].interest_rate * 100 = 12 * RateScale

\* C7, as claimed: the loan of 120000 at 12% over 12 months has the payment
\* 10661.99 in every entry of its schedule.
C7_Original ==
    \A loan_id \in DOMAIN loans :
        is_example_loan(loan_id) =>
            \A i \in schedule_of(payments, loan_id) : payments[i].amount = 1066199

\* C7, amended: calculate_annuity_payment(120000, 12, 12) uses a monthly rate
\* of 1% and returns 10661.85; a loan created by create_loan(client, 120000,
\* 12, 12) has its rate stored as 0.12, multiplied back by 100 to 12, and
\* 10661.85 in each of its 12 schedule entries.
C7_ExamplePayment ==
    /\ 12 * 100 = 1 * (100 * MonthsPerYear)
    /\ annuity_payment(12000000, 12, 12) = [raised |-> FALSE, value |-> {1066185}]
    /\ \A loan_id \in DOMAIN loans :
          (loans[loan_id].amount = 12000000 /\ loans[loan_id].term_months = 12) =>
              /\ is_example_loan(loan_id)
              /\ percent_of_fraction(loans[loan_id].interest_rate) = 12
              /\ Cardinality(schedule_of(payments, loan_id)) = 12
              /\ \A i \in schedule_of(payments, loan_id) :
                    payments[i].amount = 1066185

\* The example loan with its 12 entries, the last of them paid.
C7_Witness ==
    \E loan_id \in DOMAIN loans :
        /\ is_example_loan(loan_id)
        /\ Cardinality(schedule_of(payments, loan_id)) = 12
        /\ \E i \in schedule_of(payments, loan_id) :
              payments[i].payment_number = 12 /\ payments[i].paid = 1

\* C8: the due date of entry n is the loan's start date plus exactly 30 * n
\* days, so two consecutive entries are exactly 30 days apart.
C8_DueDates ==
    \A i \in DOMAIN payments :
        LET row == loans[payments[i].loan_id]
        IN  /\ payments[i].payment_number >= 1
            /\ payments[i].payment_number <= row.term_months
            /\ strptime(payments[i].due_date)
                  = strptime(row.start_date) + 30 * payments[i].payment_number
            /\ \A j \in schedule_of(payments, payments[i].loan_id) :
                  payments[j].payment_number = payments[i].payment_number + 1 =>
                      strptime(payments[j].due_date)
                          = strptime(payments[i].due_date) + 30

\* A loan started on 2024-01-31 is due on 2024-03-01 and on 2024-03-31: no
\* entry falls in February, and the two are a day of the month apart.
C8_Witness ==
    \E i, j \in DOMAIN payments :
        /\ payments[i].loan_id = payments[j].loan_id
        /\ loans[payments[i].loan_id].start_date = <<2024, 1, 31>>
        /\ payments[i].payment_number = 1
        /\ payments[i].due_date = <<2024, 3, 1>>
        /\ payments[j].payment_number = 2
        /\ payments[j].due_date = <<2024, 3, 31>>

\* C9: every entry generate_payment_schedule inserts is unpaid, without a
\* payment_date, and carries the amount calculate_annuity_payment returns for
\* the loan's stored amount, rate and term, the same in all entries inserted
\* together; also when the entries replaced were paid.
C9_InsertedEntries ==
    [][\A i \in DOMAIN payments' \ DOMAIN payments :
          LET row == loans'[payments'[i].loan_id]
              res == annuity_payment(row.amount,
                                     percent_of_fraction(row.interest_rate),
                                     row.term_months)
          IN  /\ payments'[i].paid = 0
              /\ payments'[i].payment_date = NULL
              /\ ~res.raised
              /\ payments'[i].amount \in res.value
              /\ \A j \in DOMAIN payments' \ DOMAIN payments :
                    payments'[j].amount = payments'[i].amount]_vars

\* The schedule of a repaid loan at 12% was generated again: its entries,
\* with ids after those of the paid ones, are unpaid, without a payment_date
\* and of the amount calculated for the loan.
C9_Witness ==
    \E loan_id \in DOMAIN loans :
        /\ loans[loan_id].status = StatusRepaid
        /\ loans[loan_id].interest_rate > 0
        /\ schedule_of(payments, loan_id) # {}
        /\ \A i \in schedule_of(payments, loan_id) :
              /\ i > loans[loan_id].term_months
              /\ payments[i].paid = 0
              /\ payments[i].payment_date = NULL
              /\ payments[i].amount \in
                    annuity_payment(loans[loan_id].amount,
                                    percent_of_fraction(loans[loan_id].interest_rate),
                                    loans[loan_id].term_months).value

\* The entry of loan_id with payment_number n.
entry_number(loan_id, n) ==
    CHOOSE i \in schedule_of(payments, loan_id) : payments[i].payment_number = n

\* The balance of loan_id after its entries 1..k are paid on their due dates,
\* interest of rate/12 being added every month (over 1200^k).
RECURSIVE paid_down(_, _)
paid_down(loan_id, k) ==
    IF k = 0 THEN [neg |-> FALSE, mag |-> BigOfInt(loans[loan_id].amount)]
    ELSE balance_step(paid_down(loan_id, k - 1),
                      payments[entry_number(loan_id, k)].amount,
                      percent_of_fraction(loans[loan_id].interest_rate), k - 1)

\* C10, as claimed: the scheduled amounts of a loan sum to the principal plus
\* the interest, that is, paying them leaves a balance of zero; for a
\* zero-rate loan they sum to the principal.
C10_Original ==
    \A loan_id \in DOMAIN loans :
        (/\ loans[loan_id].term_months > 0
         /\ Cardinality(schedule_of(payments, loan_id)) = loans[loan_id].term_months) =>
            paid_down(loan_id, loans[loan_id].term_months).mag = <<>>

(***************************************************************************)
(* Properties of the menu loops (SpecBank, SpecErp).                       *)
(***************************************************************************)
\* What C11 requires of a step that was given a text which is not a number:
\* the error is caught, one line is printed, no row is inserted or changed,
\* and main stands at the same prompt.
handled_uniformly ==
    /\ error' = NoError
    /\ Len(output') = 1
    /\ pc' = pc
    /\ UNCHANGED <<loans, payments, products, orders, order_items>>

\* The bank's choices 2, 5 and 6 given a text that is not a number.
bank_rejects ==
    /\ \A client_text \in ClientTexts, amount_text \in AmountTexts,
          rate_text \in RateTexts, term_text \in TermTexts :
          (/\ menu_create_loan(client_text, amount_text, rate_text, term_text)
           /\ \/ int(client_text).raised
              \/ float(amount_text).raised
              \/ float(rate_text).raised
              \/ int(term_text).raised) => handled_uniformly /\ output' = InvalidInput
    /\ \A loan_text \in LoanTexts :
          (menu_view_payment_schedule(loan_text) /\ int(loan_text).raised) =>
              handled_uniformly /\ output' = InvalidInput
    /\ \A payment_text \in PaymentTexts :
          (menu_pay_payment(payment_text) /\ int(payment_text).raised) =>
              handled_uniformly /\ output' = InvalidInput

\* The ERP's choices 1, 5 and 7 given a text that is not a number.
erp_rejects ==
    /\ \A name \in ProductNames, price_text \in PriceTexts, stock_text \in StockTexts :
          (/\ erp_add_product(name, price_text, stock_text)
           /\ float(price_text).raised \/ int(stock_text).raised) => handled_uniformly
    /\ \A client_text \in ClientTexts :
          (erp_create_order(client_text) /\ int(client_text).raised) =>
              handled_uniformly
    /\ \A product_text \in ProductTexts, quantity_text \in QuantityTexts :
          (/\ erp_order_turn(product_text, quantity_text)
           /\ \/ int(product_text).raised
              \/ int(product_text).value # -1 /\ int(quantity_text).raised) =>
              handled_uniformly
    /\ \A order_text \in OrderTexts :
          (erp_order_details(order_text) /\ int(order_text).raised) =>
              handled_uniformly

\* C11, as claimed: in the bank script and in the ERP script every menu
\* action that reads a number and is given a text that is not one catches
\* the error, prints a message, inserts and changes no row, and goes on to
\* the next prompt.
C11_Original == [][bank_rejects /\ erp_rejects]_vars

\* C12: choice 2 of the bank menu with a term of 0 months, at any rate,
\* inserts the loan row, inserts no schedule entry and ends with a
\* ZeroDivisionError that is not caught; after it the script does nothing.
C12_ZeroTermTerminates ==
    [][/\ \A client_text \in ClientTexts, amount_text \in AmountTexts,
             rate_text \in RateTexts, term_text \in TermTexts :
             (/\ menu_create_loan(client_text, amount_text, rate_text, term_text)
              /\ ~int(client_text).raised
              /\ ~float(amount_text).raised
              /\ ~float(rate_text).raised
              /\ ~int(term_text).raised
              /\ int(term_text).value = 0) =>
                 /\ Len(loans') = Len(loans) + 1
                 /\ SubSeq(loans', 1, Len(loans)) = loans
                 /\ loans'[Len(loans')].term_months = 0
                 /\ loans'[Len(loans')].amount = cents_of_float(float(amount_text))
                 /\ payments' = payments
                 /\ schedule_of(payments', Len(loans')) = {}
                 /\ error' = ZeroDivisionError
       /\ error # NoError => UNCHANGED vars]_vars

\* The script has stopped with the ZeroDivisionError of a loan at 12% over 0
\* months, which is in loans without an entry.
C12_Witness ==
    /\ error = ZeroDivisionError
    /\ loans # <<>>
    /\ loans[Len(loans)].term_months = 0
    /\ loans[Len(loans)].interest_rate > 0
    /\ schedule_of(payments, Len(loans)) = {}

\* C14, as claimed: a loan whose status is 'Pogashen' has no unpaid entry.
C14_Original ==
    \A loan_id \in DOMAIN loans :
        loans[loan_id].status = StatusRepaid => unpaid_of(payments, loan_id) = {}

\* C15, as claimed: every loan create_loan returned for (term_months # 0)
\* whose status is 'Otkryt' has an unpaid entry.
C15_Original ==
    \A loan_id \in DOMAIN loans :
        (loans[loan_id].term_months # 0 /\ loans[loan_id].status = StatusOpen) =>
            unpaid_of(payments, loan_id) # {}

\* C15, amended: a loan with term_months > 0 whose status is 'Otkryt' has an
\* unpaid entry; a loan with a negative term_months has no entry at all and
\* is 'Otkryt' in every state.
C15_OpenLoanUnpaid ==
    \A loan_id \in DOMAIN loans :
        /\ (loans[loan_id].term_months > 0 /\ loans[loan_id].status = StatusOpen) =>
              unpaid_of(payments, loan_id) # {}
        /\ loans[loan_id].term_months < 0 =>
              /\ schedule_of(payments, loan_id) = {}
              /\ loans[loan_id].status = StatusOpen

\* A loan of two entries with one of them paid is 'Otkryt', beside a loan
\* that is 'Pogashen'.
C15_Witness ==
    \E a, b \in DOMAIN loans :
        /\ loans[a].status = StatusOpen
        /\ Cardinality(schedule_of(payments, a)) = 2
        /\ Cardinality(unpaid_of(payments, a)) = 1
        /\ loans[b].status = StatusRepaid

\* C16: choice 6 with an id that no payment has marks no payment paid and
\* changes no loan (and inserts nothing).
C16_UnknownPaymentNoChange ==
    [][\A payment_text \in PaymentTexts :
          (/\ menu_pay_payment(payment_text)
           /\ ~int(payment_text).raised
           /\ int(payment_text).value \notin DOMAIN payments) =>
              /\ payments' = payments
              /\ loans' = loans
              /\ payment_seq' = payment_seq
              /\ error' = NoError]_vars

\* pay_payment has reported an id that no payment has as paid, while a loan
\* without an unpaid entry is 'Otkryt' and another loan has an unpaid entry.
C16_Witness ==
    /\ Len(output) = 1
    /\ Len(output[1]) = 2
    /\ output[1][1] = "Platezh oplachen."
    /\ output[1][2] \notin DOMAIN payments
    /\ \E a, b \in DOMAIN loans :
          /\ loans[a].status = StatusOpen
          /\ unpaid_of(payments, a) = {}
          /\ loans[b].status = StatusOpen
          /\ unpaid_of(payments, b) # {}

\* C17: pay_payment(p) changes nothing but the paid flag and the
\* payment_date of entry p and the status of p's loan: it inserts and
\* deletes no row, leaves every other entry and every other loan as it was,
\* and leaves every loan's client, amount, rate, term and start date.
C17_PayPaymentFrame ==
    [][\A p \in 1..(payment_seq + 1) :
          pay_payment(p) =>
              /\ DOMAIN payments' = DOMAIN payments
              /\ \A i \in DOMAIN payments :
                    /\ i # p => payments'[i] = payments[i]
                    /\ [payments'[i] EXCEPT !.paid = payments[i].paid,
                                            !.payment_date = payments[i].payment_date]
                          = payments[i]
              /\ DOMAIN loans' = DOMAIN loans
              /\ \A loan_id \in DOMAIN loans :
                    /\ (p \notin DOMAIN payments \/ loan_id # payments[p].loan_id) =>
                          loans'[loan_id] = loans[loan_id]
                    /\ [loans'[loan_id] EXCEPT !.status = loans[loan_id].status]
                          = loans[loan_id]
              /\ payment_seq' = payment_seq]_vars

\* One entry of a loan of two is paid, the other is not, and another loan
\* has its entry unpaid.
C17_Witness ==
    \E a, b \in DOMAIN loans :
        /\ a # b
        /\ Cardinality(schedule_of(payments, a)) = 2
        /\ \E i \in schedule_of(payments, a) :
              payments[i].paid = 1 /\ payments[i].payment_date # NULL
        /\ Cardinality(unpaid_of(payments, a)) = 1
        /\ unpaid_of(payments, b) # {}
        /\ \A j \in unpaid_of(payments, a) \cup unpaid_of(payments, b) :
              payments[j].payment_date = NULL

\* C18: a turn of the order loop with a product id and a quantity lowers the
\* product's stock by the quantity and inserts the order item when the
\* product exists and its stock >= the quantity, and leaves products and
\* order_items as they were otherwise.
C18_StockChecked ==
    [][\A product_text \in ProductTexts, quantity_text \in QuantityTexts :
          LET product_id == int(product_text).value
              quantity   == int(quantity_text).value
          IN  (/\ erp_order_turn(product_text, quantity_text)
               /\ ~int(product_text).raised
               /\ ~int(quantity_text).raised
               /\ product_id # -1) =>
                  IF product_id \in DOMAIN products
                        /\ products[product_id].stock >= quantity
                  THEN /\ DOMAIN products' = DOMAIN products
                       /\ products'[product_id].stock
                             = products[product_id].stock - quantity
                       /\ \A i \in DOMAIN products :
                             /\ i # product_id => products'[i] = products[i]
                             /\ products'[i].name = products[i].name
                             /\ products'[i].price = products[i].price
                       /\ Len(order_items') = Len(order_items) + 1
                       /\ SubSeq(order_items', 1, Len(order_items)) = order_items
                       /\ order_items'[Len(order_items')]
                             = [order_id |-> order_id, product_id |-> product_id,
                                quantity |-> quantity]
                  ELSE products' = products /\ order_items' = order_items]_vars

\* An item took the whole stock of a product, and a later turn was refused.
C18_Witness ==
    /\ \E i \in DOMAIN order_items :
          /\ order_items[i].quantity > 0
          /\ order_items[i].product_id \in DOMAIN products
          /\ products[order_items[i].product_id].stock = 0
    /\ output = <<<<"Nedostatochno tovara na sklade.">>>>

\* C19, as claimed: the stock of a product, added with stock >= 0, is never
\* negative and no step raises it, so that it stays between 0 and the stock
\* the product was added with.
C19_Original ==
    [][/\ \A i \in DOMAIN products :
             /\ products'[i].stock >= 0
             /\ products'[i].stock <= products[i].stock
       /\ \A i \in DOMAIN products' \ DOMAIN products : products'[i].stock >= 0]_vars

(***************************************************************************)
(* Properties of the partner application (SpecPartner).                    *)
(***************************************************************************)
\* The ids of the partners the Treeview shows.
shown_ids(tree) == {tree[k][1] : k \in DOMAIN tree}

\* The Treeview shows the partners of the table that pass the status filter,
\* each once, in the order of their ids, with the values of their rows.
tree_is_current(tree, db, status) ==
    /\ shown_ids(tree) = {id \in DOMAIN db : status = "all" \/ db[id].status = status}
    /\ \A k, l \in DOMAIN tree : k < l => tree[k][1] < tree[l][1]
    /\ \A k \in DOMAIN tree :
          /\ tree[k][2] = db[tree[k][1]].name
          /\ tree[k][5] = db[tree[k][1]].total_sales
          /\ tree[k][8] = db[tree[k][1]].status

history_kept ==
    now' = now + 1 =>
        LET dropped == Len(history) + 1 - Len(history')
        IN  /\ Len(history') <= HistoryLimit
            /\ Len(history') >= 1
            /\ history'[Len(history')].timestamp = now'
            /\ dropped >= 0
            /\ dropped > 0 => Len(history') = HistoryLimit
            /\ \A k \in 1..(Len(history') - 1) : history'[k] = history[k + dropped]

\* C20, as claimed: after every add_to_history call the history has at most
\* 100 entries, the most recently added ones in insertion order with the new
\* entry last, and the history file holds the same list.
C20_Original ==
    [][/\ history_kept
       /\ now' = now + 1 =>
             /\ history_file'.exists
             /\ history_file'.readable
             /\ json_load(history_file') = history']_vars

\* C20, amended: after every add_to_history call the history has at most 100
\* entries, the most recently added ones in insertion order with the new
\* entry last; save_history has been called with that list, and the file
\* holds the same list unless the write raised an exception, which is
\* ignored: then the file is as it was before the call, or unreadable.
C20_HistoryKept ==
    [][/\ history_kept
       /\ now' = now + 1 =>
             \/ /\ history_file'.exists
                /\ history_file'.readable
                /\ json_load(history_file') = history'
             \/ history_file' = history_file
             \/ history_file'.exists /\ ~history_file'.readable]_vars

\* The history holds the 100 entries of the seconds 4..103, the first three
\* entries are dropped, and the file holds the same list.
C20_Witness ==
    /\ now = HistoryLimit + 3
    /\ Len(history) = HistoryLimit
    /\ history[1].timestamp = 4
    /\ history[HistoryLimit].timestamp = now
    /\ history_file.exists
    /\ history_file.readable
    /\ json_load(history_file) = history

(***************************************************************************)
(* Properties of the calculator's menus (SpecCalculator).                  *)
(***************************************************************************)
typed_texts == {text \in NumberTexts : ~float(text).raised}

zero_texts == {text \in typed_texts : float_value(float(text)).num = 0}

typed_numbers == {float_value(float(text)) : text \in typed_texts}

\* The calls of basic_operations that cannot compute: a division or a
\* remainder by zero, or an operation it does not know.
cannot_compute(y, operation) ==
    \/ operation \in {"divide", "modulo"} /\ y.num = 0
    \/ operation \notin {"add", "subtract", "multiply", "divide", "power", "modulo"}

returns_message ==
    \A x \in typed_numbers, y \in typed_numbers,
       operation \in {"add", "subtract", "multiply", "divide", "power", "modulo",
                      "sqrt", ""} :
        cannot_compute(y, operation) =>
            /\ basic_operations(x, y, operation).raised = NoError
            /\ basic_operations(x, y, operation).result = None
            /\ basic_operations(x, y, operation).expression
                  \in {DivisionByZero, UnknownOperation}

\* C21: basic_operations with divide or modulo and y = 0, or with an unknown
\* operation, returns None and a message and raises nothing; the basic
\* operations menu then prints the message, appends nothing to the history
\* (nor writes its file), and leaves the memory register as it is.
C21_ErrorReturned ==
    /\ returns_message
    /\ [][\A choice \in {"4", "6"}, text1 \in typed_texts, text2 \in zero_texts :
         basic_operations_menu(choice, text1, text2)
         => /\ error' = NoError
            /\ output' = <<<<"Oshibka", DivisionByZero>>>>
            /\ history' = history
            /\ history_file' = history_file
            /\ memory' = memory]_vars

\* A division by zero was answered with the message, after a number was
\* stored in the memory register, which the history records.
C21_Witness ==
    /\ output = <<<<"Oshibka", DivisionByZero>>>>
    /\ error = NoError
    /\ memory = Float(FALSE, 2, 1)
    /\ Len(history) = 1
    /\ history[1].type = "memory"

(***************************************************************************)
(* Properties of the education book (SpecBook).                            *)
(***************************************************************************)
\* C22, as claimed: whenever the login menu is or has been shown in a run,
\* the users table holds the default administrator: username admin, the
\* hash of admin123, is_admin true.
C22_Original ==
    book.at \in {"login_menu", "main_menu"} =>
        \E k \in DOMAIN users :
            /\ users[k].username = AdminName
            /\ users[k].password_hash = sha256(AdminPassword)
            /\ users[k].is_admin

(***************************************************************************)
(* Properties of the Flask catalog (SpecCatalog).                          *)
(***************************************************************************)
\* What a request without user_id in its session gets: the redirect to the
\* login page, the tables and every session as they were.
turned_away(client) ==
    /\ response' = [client |-> client, status |-> 302, location |-> "login"]
    /\ catalog_products' = catalog_products
    /\ catalog_seq' = catalog_seq
    /\ catalog_users' = catalog_users
    /\ sessions' = sessions

\* A request of the browser to one of the four protected routes.
protected_request(client) ==
    \/ admin_panel(client)
    \/ \E method \in Methods, name \in CatalogNames, description \in Descriptions,
          price \in CatalogPriceTexts :
            catalog_add_product(client, method, name, description, price)
    \/ \E method \in Methods, product_id \in ProductIds,
          name \in CatalogNames \cup {"torsher"}, description \in Descriptions,
          price \in CatalogPriceTexts :
            edit_product(client, method, product_id, name, description, price)
    \/ \E product_id \in ProductIds : delete_product(client, product_id)

\* The session of the browser obtains a user_id in this step.
obtains_user_id(client) ==
    ~has_user_id(sessions[client]) /\ has_user_id(sessions'[client])

\* A login POST of the browser with the name of a user and a password that
\* verifies against the stored hash; the session holds the id of that user.
verified_login(client) ==
    \E username \in LoginNames, password \in LoginPasswords :
        /\ login(client, "POST", username, password)
        /\ \E k \in DOMAIN catalog_users :
              /\ catalog_users[k].username = username
              /\ check_password_hash(catalog_users[k].password_hash, password)
              /\ <<"user_id", catalog_users[k].id>> \in sessions'[client]

\* C23: a request to /admin, /add_product, /edit_product/<id> or
\* /delete_product/<id> whose session has no user_id is answered with the
\* redirect to the login page, and the products table is unchanged; a
\* session obtains a user_id only through a login POST whose username
\* exists and whose password verifies against the stored hash, and has none
\* after logout.
C23_LoginRequired ==
    [][\A client \in Clients :
         /\ ~has_user_id(sessions[client]) /\ protected_request(client)
               => turned_away(client)
         /\ obtains_user_id(client) => verified_login(client)
         /\ logout(client) => ~has_user_id(sessions'[client])]_vars

\* A browser without user_id was redirected to the login page while the
\* table holds a product that a logged-in browser added.
C23_Witness ==
    /\ response = [client |-> "c1", status |-> 302, location |-> "login"]
    /\ ~has_user_id(sessions["c1"])
    /\ has_user_id(sessions["c2"])
    /\ Len(catalog_products) = 1

(***************************************************************************)
(* Properties of the change-history log (SpecChange).                      *)
(***************************************************************************)
\* The text of a field's value as the log keeps it.
logged_text(partner, field) ==
    IF field = "total_sales" THEN sales_text(partner.row[field])
    ELSE partner.row[field]

\* The rows a step appended to the log.
appended == SubSeq(change_history', Len(change_history) + 1, Len(change_history'))

\* The call logged the tracked fields that differ, once each, and wrote the
\* new values to the partner row.
changes_logged(partner, old_partner, user) ==
    /\ Len(change_history') >= Len(change_history)
    /\ SubSeq(change_history', 1, Len(change_history)) = change_history
    /\ \A n \in DOMAIN TrackedFields :
          LET field == TrackedFields[n]
              rows  == {k \in DOMAIN appended : appended[k].field_name = field}
          IN  IF partner.row[field] # old_partner.row[field]
              THEN \E k \in DOMAIN appended :
                      /\ rows = {k}
                      /\ appended[k].partner_id = partner.id
                      /\ appended[k].old_value = logged_text(old_partner, field)
                      /\ appended[k].new_value = logged_text(partner, field)
                      /\ appended[k].user = user
              ELSE rows = {}
    /\ \A k \in DOMAIN appended :
          \E n \in DOMAIN TrackedFields : appended[k].field_name = TrackedFields[n]
    /\ partners'[partner.id] = partner.row
    /\ \A id \in DOMAIN partners \ {partner.id} : partners'[id] = partners[id]

\* C24: update_partner_with_history(new, old) inserts exactly one
\* change_history row (field name, old value, new value, user) for each of
\* the tracked fields name, email, phone, company, total_sales, status and
\* category whose value differs between old and new, inserts no row for a
\* field that is unchanged, and updates the partner row to the new values.
C24_ChangesLogged ==
    [][\A k \in DOMAIN get_all_partners(partners), fields \in EditedFields,
          user \in HistoryUsers :
         LET old_partner == get_all_partners(partners)[k]
             partner     == edited(old_partner, fields)
         IN  update_partner_with_history(partner, old_partner, user)
                => changes_logged(partner, old_partner, user)]_vars

\* The log holds the creation, then the two rows of an edit of e-mail and
\* status, then a row of total_sales alone after an edit that also changed
\* the notes; the partner row holds the new values.
C24_Witness ==
    /\ Len(change_history) = 4
    /\ change_history[1].field_name = "creation"
    /\ change_history[2].field_name = "email"
    /\ change_history[3] = history_row(1, "status", "active", "inactive", "olga")
    /\ change_history[4] = history_row(1, "total_sales", <<"1", "0", "0", ".", "5">>,
                                       <<"2", "0", "0", ".", "0">>, "system")
    /\ partners[1].total_sales = 20000
    /\ partners[1].notes = "VIP"
    /\ partners[1].status = "inactive"
====
